---------------------------- MODULE Spec2Model ----------------------------
(***************************************************************************)
(* The offline-resilient task pipeline of the blog generator:              *)
(*   - the request cache and in-flight coalescer in front of the two       *)
(*     generation operations (conductSEOResearch, generateEnhancedSEOBlog),*)
(*   - the retry engine as the blog generation uses it (retryOpenAICall),  *)
(*   - the network state monitor (NetworkService),                         *)
(*   - the persisted offline task queue (historyStore: enqueueTask,        *)
(*     removeTask, processQueue) and the App listener that drains it.      *)
(*                                                                         *)
(* Execution model.  JavaScript runs one job at a time.  A step of the     *)
(* model is the synchronous run of one job: an event handler up to its     *)
(* first await, or the continuation of an async function from the await    *)
(* whose promise has settled up to the next await.  Continuations of       *)
(* settled promises (microtasks) run before the next outside event         *)
(* (a platform callback, a user action, a timer, a provider response):     *)
(* outside events are guarded by Quiescent.                                *)
(*                                                                         *)
(* Specifications.  Spec: the store's queue operations, the monitor and a  *)
(* provider that answers or fails.  SpecReplay: tasks enqueued offline and *)
(* a provider that answers.  SpecFacade: interactive callers of the two    *)
(* operations, the provider and the retry engine.  SpecTTL: interactive    *)
(* callers and the clock.  The remaining specifications exercise one      *)
(* component on its own, the rest of the program staying in its initial    *)
(* state.  SpecKey: blogKey over pairs of requests.  SpecRetry: one call   *)
(* of withRetry under any policy.  SpecDelay: calculateDelay.  SpecParse:  *)
(* the parse block of the blog operation.  SpecLru: the LRU cache.         *)
(* SpecSanitize and SpecLogger: the logger.  SpecPreset: one call of       *)
(* retryOpenAICall.  Three further specifications of the queue: SpecDrain  *)
(* adds calls of processQueue in any state, SpecEnqueue builds the task    *)
(* ids as the code does, SpecProgress states the fairness of the event     *)
(* loop.  SpecHome: the generate button of the home screen in front of     *)
(* the blog operation and the queue.  SpecFallback: SpecTTL with a         *)
(* provider whose answers never parse.  SpecMonitor: the listener list of  *)
(* the monitor.                                                            *)
(***************************************************************************)
EXTENDS Integers, Sequences, FiniteSets, TLC

VARIABLES
    currentState,       \* NetworkService.currentState
    now,                \* Date.now(), in ms
    ticks,              \* number of clock advances so far (bounds the run)
    researchCacheMem,   \* Map key -> {data, expiresAt}
    inFlightResearch,   \* Map key -> promise (index into tasks)
    blogCacheMem,       \* Map key -> {data, expiresAt}
    inFlightBlogs,      \* Map key -> promise (index into tasks)
    tasks,              \* every upstream task (the async IIFE `task`) ever started
    abandoned,          \* provider calls still running after their attempt timed out
    callers,            \* interactive callers of the two operations
    queuedTasks,        \* historyStore.queuedTasks
    blogs,              \* historyStore.blogs
    nextId,             \* ids handed out by enqueueTask so far, plus one
    drains,             \* running invocations of processQueue
    succeeded,          \* history: ids whose processing by some drain succeeded
    failures,           \* history: id -> number of failed processings of that task
    dropped,            \* history: ids dropped by their own third failure
    removedById,        \* history: ids removed by removeTask
    requests,           \* two generation requests (BlogGenerationOptions)
    keys,               \* their cache keys, once computed
    run,                \* one call of RetryService.withRetry
    delay,              \* one call of RetryService.calculateDelay
    parse,              \* one pass through the parse block of the blog operation
    lru,                \* one LRUCache and the history of its calls
    logger,             \* the environment, one log call and the console
    monitor             \* NetworkService.listeners and the history of its calls

facadeVars == <<researchCacheMem, inFlightResearch, blogCacheMem, inFlightBlogs,
                tasks, abandoned>>
queueVars  == <<queuedTasks, blogs, nextId, drains, succeeded, failures,
                dropped, removedById>>
appVars == <<currentState, now, ticks, facadeVars, callers, queueVars>>
\* the state of the components that are exercised on their own
unitVars == <<requests, keys, run, delay, parse, lru, logger, monitor>>
vars == <<appVars, unitVars>>

----------------------------------------------------------------------------
(* Bounds of the model *)

MaxTasks == 3            \* upstream tasks started in one run
MaxAbandoned == 1        \* timed-out provider calls still running at once
MaxTicks == 2            \* clock advances in one run
MaxCallers == 3          \* interactive callers, one request each
MaxEnqueued == 3         \* tasks enqueued in one run
MaxDrains == 2           \* processQueue invocations running at once
MaxRemoved == 1          \* removeTask calls in one run
MaxPolicyAttempts == 3   \* largest maxAttempts of a retry policy
RandomSteps == 4         \* values of Math.random(): 0, 1/4, 2/4, 3/4
MaxBackoffAttempt == 7   \* largest attempt number a delay is computed for
MaxResponseLen == 4      \* characters in a provider response
MaxLruSize == 2          \* largest maxSize of an LRU cache
MaxLruCalls == 4         \* calls made on one LRU cache
MaxNesting == 3          \* nesting depth of a logged value
MaxLogCalls == 2         \* log calls in one run

(* Program constants *)

BLOG_TTL_MS == 24 * 60 * 60 * 1000
RESEARCH_TTL_MS == 24 * 60 * 60 * 1000
OpenAIMaxAttempts == 4
QueueMaxAttempts == 3
DefaultWordCount == 2500

----------------------------------------------------------------------------
(* Strings are sequences of one-character strings. *)

LowerChar(c) ==
    LET upper == <<"A","B","C","D","E","F","G","H","I","J","K","L","M","N","O","P",
                   "Q","R","S","T","U","V","W","X","Y","Z">>
        lower == <<"a","b","c","d","e","f","g","h","i","j","k","l","m","n","o","p",
                   "q","r","s","t","u","v","w","x","y","z">>
    IN  IF \E i \in 1..Len(upper) : upper[i] = c
        THEN lower[CHOOSE i \in 1..Len(upper) : upper[i] = c]
        ELSE c

ToLowerCase(s) == [i \in 1..Len(s) |-> LowerChar(s[i])]

IsSpace(c) == c = " "

RECURSIVE TrimStart(_)
TrimStart(s) == IF s # <<>> /\ IsSpace(Head(s)) THEN TrimStart(Tail(s)) ELSE s

RECURSIVE TrimEnd(_)
TrimEnd(s) ==
    IF s # <<>> /\ IsSpace(s[Len(s)]) THEN TrimEnd(SubSeq(s, 1, Len(s) - 1)) ELSE s

Trim(s) == TrimEnd(TrimStart(s))

\* s.replace(/\s+/g, " ")
RECURSIVE CollapseSpaces(_)
CollapseSpaces(s) ==
    IF s = <<>> THEN <<>>
    ELSE IF IsSpace(Head(s))
         THEN <<" ">> \o CollapseSpaces(TrimStart(s))
         ELSE <<Head(s)>> \o CollapseSpaces(Tail(s))

\* message.includes(sub)
Includes(s, sub) ==
    \E i \in 1..(Len(s) - Len(sub) + 1) : SubSeq(s, i, i + Len(sub) - 1) = sub

normalizeTopic(t) == CollapseSpaces(ToLowerCase(Trim(t)))

Default(opts, f, d) == IF f \in DOMAIN opts THEN opts[f] ELSE d

blogKey(opts) ==
    [t      |-> ToLowerCase(Trim(opts.topic)),
     ct     |-> Default(opts, "contentType", "guide"),
     ta     |-> Default(opts, "targetAudience", "general"),
     tn     |-> Default(opts, "tone", "conversational"),
     faq    |-> Default(opts, "includeFAQ", TRUE),
     schema |-> Default(opts, "includeSchema", TRUE),
     img    |-> Default(opts, "includeImages", FALSE),
     wc     |-> Default(opts, "wordCount", DefaultWordCount)]

----------------------------------------------------------------------------
(* Errors.  An error is named by its origin; its fields follow. *)

Errors == {"offline", "timeout", "rate", "fatal", "nocontent", "research"}

\* error.message.toLowerCase()
Message(e) ==
    CASE e = "offline" ->
           <<"n","o"," ","i","n","t","e","r","n","e","t"," ","c","o","n","n","e","c",
             "t","i","o","n"," ","a","v","a","i","l","a","b","l","e">>
      [] e = "timeout" ->
           <<"o","p","e","r","a","t","i","o","n"," ","t","i","m","e","d"," ","o","u","t",
             " ","a","f","t","e","r"," ","3","0","0","0","0","m","s">>
      [] e = "rate" ->
           <<"4","2","9"," ","r","a","t","e"," ","l","i","m","i","t"," ","e","x","c","e",
             "e","d","e","d">>
      [] e = "fatal" ->
           <<"4","0","1"," ","i","n","c","o","r","r","e","c","t"," ","a","p","i"," ",
             "k","e","y">>
      [] e = "fetch" ->
           <<"n","e","t","w","o","r","k"," ","r","e","q","u","e","s","t"," ","f","a","i",
             "l","e","d">>
      [] e = "unavailable" ->
           <<"s","e","r","v","i","c","e"," ","u","n","a","v","a","i","l","a","b","l","e">>
      [] e = "nocontent" ->
           <<"n","o"," ","c","o","n","t","e","n","t"," ","g","e","n","e","r","a","t","e","d">>
      [] OTHER ->
           <<"f","a","i","l","e","d"," ","t","o"," ","c","o","n","d","u","c","t"," ",
             "s","e","o"," ","r","e","s","e","a","r","c","h">>

\* Only createNetworkError tags an error: the engine's own error ("offline"),
\* and an error an operation builds with it for a 503 answer ("unavailable").
IsNetworkError(e) == e \in {"offline", "unavailable"}

\* retryOpenAICall's retryCondition
OpenAIRetryCondition(e) ==
    LET message == Message(e) IN
    \/ Includes(message, <<"r","a","t","e"," ","l","i","m","i","t">>)
    \/ Includes(message, <<"t","i","m","e","o","u","t">>)
    \/ Includes(message, <<"s","e","r","v","e","r"," ","e","r","r","o","r">>)
    \/ Includes(message, <<"5","0","3">>)
    \/ Includes(message, <<"5","0","2">>)
    \/ Includes(message, <<"5","0","0">>)
    \/ Includes(message, <<"4","2","9">>)

----------------------------------------------------------------------------
(* Network state monitor *)

NetStates ==
    {[isConnected |-> TRUE,  isInternetReachable |-> TRUE],
     [isConnected |-> TRUE,  isInternetReachable |-> FALSE],
     [isConnected |-> FALSE, isInternetReachable |-> FALSE]}

\* the states that differ for the two operations, which read isOnline() only
FacadeNetStates ==
    {[isConnected |-> TRUE,  isInternetReachable |-> TRUE],
     [isConnected |-> FALSE, isInternetReachable |-> FALSE]}

isOnline == currentState.isConnected /\ currentState.isInternetReachable

----------------------------------------------------------------------------
(* Promises.  A reference held by an awaiter is either an upstream task    *)
(* (t > 0) or a value served from the cache (t = 0, the value in src, fb). *)
(* A value is named by the task that produced it (src) and whether it is   *)
(* the fallback object (fb).                                               *)

CachedRef(data) == [t |-> 0, src |-> data.src, fb |-> data.fb]
TaskRef(i) == [t |-> i, src |-> i, fb |-> FALSE]
NoRef == [t |-> 0, src |-> 0, fb |-> FALSE]

Settled(aw) == IF aw.t = 0 THEN TRUE ELSE tasks[aw.t].st # "pending"

Outcome(aw) ==
    IF aw.t = 0
    THEN [st |-> "resolved", src |-> aw.src, fb |-> aw.fb, err |-> "none"]
    ELSE [st |-> tasks[aw.t].st, src |-> aw.t, fb |-> tasks[aw.t].fb,
          err |-> tasks[aw.t].err]

MapSet(m, k, v) == [x \in DOMAIN m \cup {k} |-> IF x = k THEN v ELSE m[x]]
MapDelete(m, k) == [x \in DOMAIN m \ {k} |-> m[x]]
EmptyMap == [x \in {} |-> 0]


----------------------------------------------------------------------------
(* Retry engine, as generateEnhancedSEOBlog runs its provider call through *)
(* retryOpenAICall -> retryApiCall -> RetryService.withRetry.  The attempt *)
(* counter is a local of withRetry: it is reset once the call has ended.    *)

\* withRetry's catch branch for the error e of the current attempt
AttemptFailed(task, e) ==
    IF task.attempt = OpenAIMaxAttempts \/ ~OpenAIRetryCondition(e)
    THEN [task EXCEPT !.st = "rejected", !.phase = "done", !.err = e, !.attempt = 0]
    ELSE [task EXCEPT !.phase = "sleep"]

\* withRetry's try branch up to the race: the connectivity check, then the call
BeginAttempt(task, online) ==
    IF ~online
    THEN AttemptFailed(task, "offline")
    ELSE [task EXCEPT !.phase = "call"]

----------------------------------------------------------------------------
(* Request cache and coalescer: conductSEOResearch *)

NewTask(kind, key) ==
    [kind |-> kind, key |-> key, st |-> "pending", attempt |-> 1, phase |-> "call",
     fb |-> FALSE, err |-> "none"]

\* variant: an entry is still served at the instant it expires
FreshAtExpiry(cached) == cached.expiresAt >= now

\* cached.expiresAt > Date.now(), the test both operations apply to an entry
Fresh(cached) == cached.expiresAt > now

ResearchCacheLive(key) ==
    IF key \in DOMAIN researchCacheMem THEN Fresh(researchCacheMem[key]) ELSE FALSE

ResearchFlight(key) == key \in DOMAIN inFlightResearch

\* whether a call starts a new upstream task
ResearchStarts(topic) ==
    LET key == normalizeTopic(topic) IN
    ~ResearchCacheLive(key) /\ ~ResearchFlight(key)

\* the promise conductSEOResearch(topic) returns
ResearchRef(topic) ==
    LET key == normalizeTopic(topic) IN
    IF ResearchCacheLive(key) THEN CachedRef(researchCacheMem[key].data)
    ELSE IF ResearchFlight(key) THEN TaskRef(inFlightResearch[key])
    ELSE TaskRef(Len(tasks) + 1)

\* the synchronous part of conductSEOResearch(topic); the provider call is
\* made directly, with no connectivity check and no retry
conductSEOResearch(topic) ==
    LET key == normalizeTopic(topic) IN
    IF ResearchStarts(topic)
    THEN /\ Len(tasks) < MaxTasks
         /\ tasks' = Append(tasks, NewTask("research", key))
         /\ inFlightResearch' = MapSet(inFlightResearch, key, Len(tasks) + 1)
         /\ UNCHANGED <<researchCacheMem, blogCacheMem, inFlightBlogs, abandoned>>
    ELSE UNCHANGED facadeVars

----------------------------------------------------------------------------
(* Request cache and coalescer: generateEnhancedSEOBlog *)

BlogCacheLive(key) ==
    IF key \in DOMAIN blogCacheMem THEN Fresh(blogCacheMem[key]) ELSE FALSE

\* variant: the registry is never consulted
NoFlight(key) == FALSE

BlogFlight(key) == key \in DOMAIN inFlightBlogs

\* variant: a call starts a task even though one is in flight for its key
BlogStartsAnyway(opts) == ~BlogCacheLive(blogKey(opts))

BlogStarts(opts) ==
    LET key == blogKey(opts) IN
    ~BlogCacheLive(key) /\ ~BlogFlight(key)

\* the promise generateEnhancedSEOBlog(opts) returns
BlogRef(opts) ==
    LET key == blogKey(opts) IN
    IF BlogCacheLive(key) THEN CachedRef(blogCacheMem[key].data)
    ELSE IF BlogFlight(key) THEN TaskRef(inFlightBlogs[key])
    ELSE TaskRef(Len(tasks) + 1)

\* variant: a cache hit renews the entry (a sliding TTL)
SlidingHit(opts, online) ==
    LET key == blogKey(opts)
        task == BeginAttempt([NewTask("blog", key) EXCEPT !.phase = "new"], online)
    IN
    IF BlogStarts(opts)
    THEN /\ Len(tasks) < MaxTasks
         /\ tasks' = Append(tasks, task)
         /\ inFlightBlogs' = IF task.st = "pending"
                             THEN MapSet(inFlightBlogs, key, Len(tasks) + 1)
                             ELSE MapDelete(inFlightBlogs, key)
         /\ UNCHANGED <<researchCacheMem, inFlightResearch, blogCacheMem, abandoned>>
    ELSE IF BlogCacheLive(key)
    THEN /\ blogCacheMem' = [blogCacheMem EXCEPT ![key].expiresAt = now + BLOG_TTL_MS]
         /\ UNCHANGED <<researchCacheMem, inFlightResearch, inFlightBlogs, tasks,
                        abandoned>>
    ELSE UNCHANGED facadeVars

\* the synchronous part of generateEnhancedSEOBlog(opts): the task runs up to
\* the race of its first attempt (online: what isOnline() returns there); a
\* task that has already failed there is registered and removed again by the
\* finally block before any outside event
generateEnhancedSEOBlog(opts, online) ==
    LET key == blogKey(opts)
        task == BeginAttempt([NewTask("blog", key) EXCEPT !.phase = "new"], online)
    IN
    IF BlogStarts(opts)
    THEN /\ Len(tasks) < MaxTasks
         /\ tasks' = Append(tasks, task)
         /\ inFlightBlogs' = IF task.st = "pending"
                             THEN MapSet(inFlightBlogs, key, Len(tasks) + 1)
                             ELSE MapDelete(inFlightBlogs, key)
         /\ UNCHANGED <<researchCacheMem, inFlightResearch, blogCacheMem, abandoned>>
    ELSE UNCHANGED facadeVars

----------------------------------------------------------------------------
(* Settlement of an upstream task, with the continuation of the call that  *)
(* started it (lines 278-284 / 168-174): that call awaited the task in the *)
(* job that created it, so its continuation is the first to run.           *)

\* storedAt is history: the time the request completed
CacheEntry(t, fb, ttl) ==
    [data |-> [src |-> t, fb |-> fb], expiresAt |-> now + ttl, storedAt |-> now]

\* the call that started task t stores the result and clears the registry
StoreResult(t, fb) ==
    LET key == tasks[t].key IN
    IF tasks[t].kind = "research"
    THEN /\ researchCacheMem' =
               MapSet(researchCacheMem, key, CacheEntry(t, fb, RESEARCH_TTL_MS))
         /\ inFlightResearch' = MapDelete(inFlightResearch, key)
         /\ UNCHANGED <<blogCacheMem, inFlightBlogs>>
    ELSE /\ blogCacheMem' = MapSet(blogCacheMem, key, CacheEntry(t, fb, BLOG_TTL_MS))
         /\ inFlightBlogs' = MapDelete(inFlightBlogs, key)
         /\ UNCHANGED <<researchCacheMem, inFlightResearch>>

\* variant: the registry entry outlives a failed task
KeepFlight(t) ==
    UNCHANGED <<researchCacheMem, inFlightResearch, blogCacheMem, inFlightBlogs>>

\* the finally block alone: the task failed
ClearFlight(t) ==
    LET key == tasks[t].key IN
    IF tasks[t].kind = "research"
    THEN /\ inFlightResearch' = MapDelete(inFlightResearch, key)
         /\ UNCHANGED <<researchCacheMem, blogCacheMem, inFlightBlogs>>
    ELSE /\ inFlightBlogs' = MapDelete(inFlightBlogs, key)
         /\ UNCHANGED <<researchCacheMem, inFlightResearch, blogCacheMem>>

\* variant: only a parsed result is stored, a fallback object is returned
\* to the caller and forgotten
ResolveParsedOnly(t, fb) ==
    /\ tasks' = [tasks EXCEPT ![t] = [@ EXCEPT !.st = "resolved", !.phase = "done",
                                               !.fb = fb, !.attempt = 0]]
    /\ IF fb THEN ClearFlight(t) ELSE StoreResult(t, fb)

Resolve(t, fb) ==
    /\ tasks' = [tasks EXCEPT ![t] = [@ EXCEPT !.st = "resolved", !.phase = "done",
                                               !.fb = fb, !.attempt = 0]]
    /\ StoreResult(t, fb)

Reject(t, e) ==
    /\ tasks' = [tasks EXCEPT ![t] = [@ EXCEPT !.st = "rejected", !.phase = "done",
                                               !.err = e, !.attempt = 0]]
    /\ ClearFlight(t)

\* the outcome of one attempt of task t inside the retry engine
AfterAttempt(t, task) ==
    /\ tasks' = [tasks EXCEPT ![t] = task]
    /\ IF task.st = "pending"
       THEN UNCHANGED <<researchCacheMem, inFlightResearch, blogCacheMem, inFlightBlogs>>
       ELSE ClearFlight(t)


----------------------------------------------------------------------------
(* Awaiters *)

CallerIds == 1..MaxCallers
DrainIds == 1..MaxDrains

Quiescent ==
    /\ \A c \in CallerIds : callers[c].pc = "waiting" => ~Settled(callers[c].aw)
    /\ \A d \in DrainIds : drains[d].pc # "idle" => ~Settled(drains[d].aw)

----------------------------------------------------------------------------
(* The provider (the chat completion call) and the timers of the engine *)

Responses == {"json", "text", "empty"}
ProviderErrors == {"rate", "fatal"}

Calling(t) == tasks[t].st = "pending" /\ tasks[t].phase = "call"

\* the provider answers the call of task t: parsed JSON, text that is not
\* JSON (the fallback object is returned), or no content (the task throws)
ProviderRespond(t, r) ==
    /\ Quiescent
    /\ Calling(t)
    /\ IF r = "empty"
       THEN Reject(t, IF tasks[t].kind = "research" THEN "research" ELSE "nocontent")
       ELSE Resolve(t, r = "text")
    /\ UNCHANGED <<currentState, now, ticks, unitVars, abandoned, callers, queueVars>>

\* the provider call of task t throws
ProviderFail(t, e) ==
    /\ Quiescent
    /\ Calling(t)
    /\ IF tasks[t].kind = "research"
       THEN Reject(t, "research")
       ELSE AfterAttempt(t, AttemptFailed(tasks[t], e))
    /\ UNCHANGED <<currentState, now, ticks, unitVars, abandoned, callers, queueVars>>

AbandonedCount(key) == IF key \in DOMAIN abandoned THEN abandoned[key] ELSE 0

\* the engine's timeout wins the race: the attempt fails, the call runs on
Timeout(t) ==
    /\ Quiescent
    /\ Calling(t)
    /\ tasks[t].kind = "blog"
    /\ AbandonedCount(tasks[t].key) < MaxAbandoned
    /\ abandoned' = MapSet(abandoned, tasks[t].key, AbandonedCount(tasks[t].key) + 1)
    /\ AfterAttempt(t, AttemptFailed(tasks[t], "timeout"))
    /\ UNCHANGED <<currentState, now, ticks, unitVars, callers, queueVars>>

\* the backoff delay of task t ends and the next attempt begins
SleepDone(t) ==
    /\ Quiescent
    /\ tasks[t].st = "pending"
    /\ tasks[t].phase = "sleep"
    /\ AfterAttempt(t, BeginAttempt([tasks[t] EXCEPT !.attempt = @ + 1], isOnline))
    /\ UNCHANGED <<currentState, now, ticks, unitVars, abandoned, callers, queueVars>>

\* a call abandoned by a timeout ends at last; nobody reads its result
AbandonedRespond(key) ==
    /\ Quiescent
    /\ AbandonedCount(key) > 0
    /\ abandoned' = IF abandoned[key] = 1 THEN MapDelete(abandoned, key)
                    ELSE MapSet(abandoned, key, abandoned[key] - 1)
    /\ UNCHANGED <<currentState, now, ticks, unitVars, researchCacheMem, inFlightResearch,
                   blogCacheMem, inFlightBlogs, tasks, callers, queueVars>>

TickSteps == {1, BLOG_TTL_MS - 1}

Tick(ms) ==
    /\ Quiescent
    /\ ticks < MaxTicks
    /\ now' = now + ms
    /\ ticks' = ticks + 1
    /\ UNCHANGED <<currentState, unitVars, facadeVars, callers, queueVars>>

----------------------------------------------------------------------------
(* Interactive callers (the screens) *)

Topics == {<<"a">>, <<" ", "A">>, <<"b">>}

BlogInputs ==
    {[topic |-> <<"a">>],
     [topic |-> <<" ", "A">>, wordCount |-> DefaultWordCount],
     [topic |-> <<"b">>]}

NoOutcome == [st |-> "none", src |-> 0, fb |-> FALSE, err |-> "none"]

\* at, entryAt are history: the time of the request and the time the cache
\* entry of its key was stored (-1: the key had no entry)
IdleCaller == [pc |-> "idle", kind |-> "none", key |-> <<>>, aw |-> NoRef, at |-> 0,
               entryAt |-> -1, got |-> NoOutcome]

StoredAt(cache, key) == IF key \in DOMAIN cache THEN cache[key].storedAt ELSE -1

\* caller c makes its one request once the callers before it have made theirs
MayCall(c) ==
    /\ callers[c].pc = "idle"
    /\ \A b \in 1..(c - 1) : callers[b].pc # "idle"

CallResearch(c, topic) ==
    /\ Quiescent
    /\ MayCall(c)
    /\ conductSEOResearch(topic)
    /\ callers' = [callers EXCEPT ![c] =
           [pc |-> "waiting", kind |-> "research", key |-> normalizeTopic(topic),
            aw |-> ResearchRef(topic), at |-> now,
            entryAt |-> StoredAt(researchCacheMem, normalizeTopic(topic)),
            got |-> NoOutcome]]
    /\ UNCHANGED <<currentState, now, ticks, unitVars, queueVars>>

CallBlog(c, opts) ==
    /\ Quiescent
    /\ MayCall(c)
    /\ generateEnhancedSEOBlog(opts, isOnline)
    /\ callers' = [callers EXCEPT ![c] =
           [pc |-> "waiting", kind |-> "blog", key |-> blogKey(opts),
            aw |-> BlogRef(opts), at |-> now,
            entryAt |-> StoredAt(blogCacheMem, blogKey(opts)), got |-> NoOutcome]]
    /\ UNCHANGED <<currentState, now, ticks, unitVars, queueVars>>

\* the caller's await returns or throws
CallerResume(c) ==
    /\ callers[c].pc = "waiting"
    /\ Settled(callers[c].aw)
    /\ callers' = [callers EXCEPT ![c].pc = "done", ![c].got = Outcome(callers[c].aw)]
    /\ UNCHANGED <<currentState, now, ticks, unitVars, facadeVars, queueVars>>


----------------------------------------------------------------------------
(* Offline task queue (historyStore) *)

QueueTopics == {<<"a">>, <<"b">>}

\* the options both screens pass to enqueueTask
HomeOptions ==
    [contentType |-> "guide", tone |-> "conversational", includeFAQ |-> TRUE,
     includeSchema |-> TRUE, wordCount |-> DefaultWordCount]

TaskInputs ==
    {[topic |-> t, withResearch |-> w, options |-> HomeOptions] :
        t \in QueueTopics, w \in BOOLEAN}

NoTask == [id |-> 0, topic |-> <<>>, withResearch |-> FALSE, options |-> HomeOptions,
           attempts |-> 0]

\* begun is history: the ids this invocation has begun to process
IdleDrain == [pc |-> "idle", task |-> NoTask, aw |-> NoRef, begun |-> {}]

Ids(q) == {q[i].id : i \in 1..Len(q)}

\* queuedTasks.slice(1)
Slice1(q) == IF q = <<>> THEN <<>> ELSE Tail(q)

\* the argument processQueue builds for generateEnhancedSEOBlog (lines 140-148);
\* researchData is undefined unless the research step ran
DrainOpts(task, research) ==
    LET o == IF "options" \in DOMAIN task THEN task.options ELSE EmptyMap
        base == [topic         |-> task.topic,
                 contentType   |-> Default(o, "contentType", "guide"),
                 tone          |-> Default(o, "tone", "conversational"),
                 includeFAQ    |-> Default(o, "includeFAQ", TRUE),
                 includeSchema |-> Default(o, "includeSchema", TRUE),
                 wordCount     |-> Default(o, "wordCount", DefaultWordCount)]
    IN IF task.withResearch THEN ("researchData" :> research) @@ base ELSE base

enqueueTask(input) ==
    /\ Quiescent
    /\ nextId <= MaxEnqueued
    /\ queuedTasks' = Append(queuedTasks,
           [id |-> nextId, topic |-> input.topic, withResearch |-> input.withResearch,
            options |-> input.options, attempts |-> 0])
    /\ nextId' = nextId + 1
    /\ UNCHANGED <<currentState, now, ticks, unitVars, facadeVars, callers, blogs, drains,
                   succeeded, failures, dropped, removedById>>

\* removeTask(id) for an id that is queued (for any other id the filter
\* leaves the queue as it is)
removeTask(id) ==
    /\ Quiescent
    /\ Cardinality(removedById) < MaxRemoved
    /\ id \in Ids(queuedTasks)
    /\ queuedTasks' = SelectSeq(queuedTasks, LAMBDA t : t.id # id)
    /\ removedById' = removedById \cup {id}
    /\ UNCHANGED <<currentState, now, ticks, unitVars, facadeVars, callers, blogs, nextId, drains,
                   succeeded, failures, dropped>>

\* the loop test of processQueue and, if it passes, one iteration up to its
\* first await, in invocation d on the queue q (online: isOnline() there)
Iterate(d, q, online) ==
    /\ queuedTasks' = q
    /\ IF online /\ q # <<>>
       THEN LET task == q[1]
                begun == drains[d].begun \cup {task.id}
            IN
            IF task.withResearch
            THEN /\ conductSEOResearch(task.topic)
                 /\ drains' = [drains EXCEPT ![d] =
                        [pc |-> "research", task |-> task,
                         aw |-> ResearchRef(task.topic), begun |-> begun]]
            ELSE /\ generateEnhancedSEOBlog(DrainOpts(task, NoRef), online)
                 /\ drains' = [drains EXCEPT ![d] =
                        [pc |-> "generate", task |-> task,
                         aw |-> BlogRef(DrainOpts(task, NoRef)), begun |-> begun]]
       ELSE /\ drains' = [drains EXCEPT ![d] = IdleDrain]
            /\ UNCHANGED facadeVars

\* variant: the ceiling is tested with > instead of >=
ExhaustedLate(attempts) == attempts > QueueMaxAttempts

\* attempts >= 3
Exhausted(attempts) == attempts >= QueueMaxAttempts

\* variant: the loop goes on after a failure below the ceiling
ContinueLoop(d, q) == Iterate(d, q, isOnline)

\* break: invocation d ends and leaves the queue q
Break(d, q) ==
    /\ queuedTasks' = q
    /\ drains' = [drains EXCEPT ![d] = IdleDrain]
    /\ UNCHANGED facadeVars

\* variant: the invocation ends after it has dropped the exhausted task
DropAndBreak(d) ==
    LET task == drains[d].task
        q1 == [i \in 1..Len(queuedTasks) |->
                 IF i = 1 THEN [queuedTasks[i] EXCEPT !.attempts = @ + 1]
                 ELSE queuedTasks[i]]
        attempts == IF q1 = <<>> THEN 0 ELSE q1[1].attempts
    IN
    /\ failures' = [failures EXCEPT ![task.id] = @ + 1]
    /\ IF Exhausted(attempts)
       THEN /\ dropped' = IF q1[1].id = task.id THEN dropped \cup {task.id} ELSE dropped
            /\ Break(d, Slice1(q1))
       ELSE /\ Break(d, q1)
            /\ UNCHANGED dropped
    /\ UNCHANGED <<blogs, succeeded>>

\* the catch branch of processQueue (lines 171-186)
DrainCatch(d) ==
    LET task == drains[d].task
        q1 == [i \in 1..Len(queuedTasks) |->
                 IF i = 1 THEN [queuedTasks[i] EXCEPT !.attempts = @ + 1]
                 ELSE queuedTasks[i]]
        attempts == IF q1 = <<>> THEN 0 ELSE q1[1].attempts
    IN
    /\ failures' = [failures EXCEPT ![task.id] = @ + 1]
    /\ IF Exhausted(attempts)
       THEN /\ dropped' = IF q1[1].id = task.id THEN dropped \cup {task.id} ELSE dropped
            /\ Iterate(d, Slice1(q1), isOnline)
       ELSE /\ Break(d, q1)
            /\ UNCHANGED dropped
    /\ UNCHANGED <<blogs, succeeded>>

\* addBlog(blogPost); the artifact is named by the queued task it was built for
addBlog(blog) == blogs' = <<blog>> \o blogs

\* the continuation of invocation d of processQueue after its await
DrainResume(d) ==
    /\ drains[d].pc # "idle"
    /\ Settled(drains[d].aw)
    /\ LET task == drains[d].task
           res == Outcome(drains[d].aw)
       IN
       IF res.st = "rejected"
       THEN DrainCatch(d)
       ELSE IF drains[d].pc = "research"
       THEN /\ generateEnhancedSEOBlog(DrainOpts(task, drains[d].aw), isOnline)
            /\ drains' = [drains EXCEPT ![d] =
                   [pc |-> "generate", task |-> task,
                    aw |-> BlogRef(DrainOpts(task, drains[d].aw)),
                    begun |-> drains[d].begun]]
            /\ UNCHANGED <<queuedTasks, blogs, succeeded, failures, dropped>>
       ELSE /\ addBlog([task |-> task.id, topic |-> task.topic, src |-> res.src])
            /\ succeeded' = succeeded \cup {task.id}
            /\ Iterate(d, Slice1(queuedTasks), isOnline)
            /\ UNCHANGED <<failures, dropped>>
    /\ UNCHANGED <<currentState, now, ticks, unitVars, callers, nextId, removedById>>

FreeDrains == {d \in DrainIds : drains[d].pc = "idle"}

\* variant: processQueue without its test of the monitor and of the queue
DrainUnguarded(ns) ==
    /\ FreeDrains # {}
    /\ Iterate(CHOOSE d \in FreeDrains : \A e \in FreeDrains : d <= e, queuedTasks, TRUE)

\* processQueue(), invoked with the monitor in state ns
processQueue(ns) ==
    LET online == ns.isConnected /\ ns.isInternetReachable IN
    IF ~online \/ queuedTasks = <<>>
    THEN UNCHANGED <<facadeVars, queuedTasks, drains>>
    ELSE /\ FreeDrains # {}
         /\ Iterate(CHOOSE d \in FreeDrains : \A e \in FreeDrains : d <= e,
                    queuedTasks, online)

\* a platform connectivity callback (or the initial fetch): the monitor stores
\* the state and notifies its listeners; the App listener drains the queue
\* when the new state is connected and reachable
NetInfoEvent(ns) ==
    /\ Quiescent
    /\ currentState' = ns
    /\ IF ns.isConnected /\ ns.isInternetReachable
       THEN processQueue(ns)
       ELSE UNCHANGED <<facadeVars, queuedTasks, drains>>
    /\ UNCHANGED <<now, ticks, unitVars, callers, blogs, nextId, succeeded, failures, dropped,
                   removedById>>

----------------------------------------------------------------------------
(* Specifications *)

AppInit ==
    /\ currentState = [isConnected |-> FALSE, isInternetReachable |-> FALSE]
    /\ now = 0
    /\ ticks = 0
    /\ researchCacheMem = EmptyMap
    /\ inFlightResearch = EmptyMap
    /\ blogCacheMem = EmptyMap
    /\ inFlightBlogs = EmptyMap
    /\ tasks = <<>>
    /\ abandoned = EmptyMap
    /\ callers = [c \in CallerIds |-> IdleCaller]
    /\ queuedTasks = <<>>
    /\ blogs = <<>>
    /\ nextId = 1
    /\ drains = [d \in DrainIds |-> IdleDrain]
    /\ succeeded = {}
    /\ failures = [i \in 1..(MaxEnqueued + 1) |-> 0]
    /\ dropped = {}
    /\ removedById = {}

\* nothing is exercised on its own
UnitInit ==
    /\ requests = <<>> /\ keys = <<>>
    /\ run = <<>>
    /\ delay = <<>>
    /\ parse = <<>>
    /\ lru = <<>>
    /\ logger = <<>>
    /\ monitor = <<>>

Init == AppInit /\ UnitInit

TaskIds == 1..Len(tasks)

ProviderNext ==
    \/ \E t \in TaskIds, r \in Responses : ProviderRespond(t, r)
    \/ \E t \in TaskIds, e \in ProviderErrors : ProviderFail(t, e)
    \/ \E t \in TaskIds : Timeout(t)
    \/ \E t \in TaskIds : SleepDone(t)
    \/ \E key \in DOMAIN abandoned : AbandonedRespond(key)

\* the offline queue, its drains and the monitor; every provider call either
\* returns a parsable answer or throws an error the engine does not retry
Next ==
    \/ \E input \in TaskInputs : enqueueTask(input)
    \/ \E id \in 1..(nextId - 1) : removeTask(id)
    \/ \E ns \in NetStates : NetInfoEvent(ns)
    \/ \E d \in DrainIds : DrainResume(d)
    \/ \E t \in TaskIds : ProviderRespond(t, "json")
    \/ \E t \in TaskIds : ProviderFail(t, "fatal")

Spec == Init /\ [][Next]_vars

\* the offline replay: tasks are enqueued while the monitor reports offline
\* and every provider call returns a parsable answer
NextReplay ==
    \/ \E input \in TaskInputs : ~isOnline /\ enqueueTask(input)
    \/ \E ns \in NetStates : NetInfoEvent(ns)
    \/ \E d \in DrainIds : DrainResume(d)
    \/ \E t \in TaskIds : ProviderRespond(t, "json")

SpecReplay == Init /\ [][NextReplay]_vars

\* the two operations under interactive callers, the provider and the engine
NextFacade ==
    \/ \E c \in CallerIds, topic \in Topics : CallResearch(c, topic)
    \/ \E c \in CallerIds, opts \in BlogInputs : CallBlog(c, opts)
    \/ \E c \in CallerIds : CallerResume(c)
    \/ \E ns \in FacadeNetStates : NetInfoEvent(ns)
    \/ ProviderNext

SpecFacade == Init /\ [][NextFacade]_vars

\* the two operations under interactive callers and the clock; every provider
\* call returns a parsable answer
NextTTL ==
    \/ \E c \in CallerIds, topic \in Topics : CallResearch(c, topic)
    \/ \E c \in CallerIds, opts \in BlogInputs : CallBlog(c, opts)
    \/ \E c \in CallerIds : CallerResume(c)
    \/ \E ns \in FacadeNetStates : NetInfoEvent(ns)
    \/ \E ms \in TickSteps : Tick(ms)
    \/ \E t \in TaskIds : ProviderRespond(t, "json")

SpecTTL == Init /\ [][NextTTL]_vars

----------------------------------------------------------------------------
(* Properties of the request cache and coalescer *)

\* the cache and the registry of an operation
CacheOf(kind) == IF kind = "research" THEN researchCacheMem ELSE blogCacheMem
FlightOf(kind) == IF kind = "research" THEN inFlightResearch ELSE inFlightBlogs
TtlOf(kind) == IF kind = "research" THEN RESEARCH_TTL_MS ELSE BLOG_TTL_MS

\* the upstream tasks of one operation and key that have not settled
PendingFor(kind, key) ==
    {t \in TaskIds : tasks[t].kind = kind /\ tasks[t].key = key /\ tasks[t].st = "pending"}

\* the step is a request of caller c
Requests(c) == callers[c].pc = "idle" /\ callers'[c].pc = "waiting"

\* C1 (coalescing): a request whose key has an unsettled upstream task starts
\* no task and is handed that task; no key ever has two unsettled upstream
\* tasks; callers that were handed the same task end with the same outcome,
\* the task's value or the task's rejection.
C1_Coalescing ==
    /\ [](\A t1 \in TaskIds : \A t2 \in PendingFor(tasks[t1].kind, tasks[t1].key) :
            tasks[t1].st = "pending" => t1 = t2)
    /\ [](\A c1, c2 \in CallerIds :
            (/\ callers[c1].pc = "done" /\ callers[c2].pc = "done"
             /\ callers[c1].aw.t > 0 /\ callers[c1].aw.t = callers[c2].aw.t)
                => /\ callers[c1].got = callers[c2].got
                   /\ callers[c1].got.st = tasks[callers[c1].aw.t].st
                   /\ callers[c1].got.src = callers[c1].aw.t)
    /\ [][\A c \in CallerIds :
            Requests(c) =>
                LET kind == callers'[c].kind
                    key == callers'[c].key
                IN \A t \in PendingFor(kind, key) :
                       tasks' = tasks /\ callers'[c].aw = TaskRef(t)]_vars

\* C1, reached: three callers of one operation with one key wait for one
\* unsettled task
C1_Witness ==
    \E t \in TaskIds :
        /\ tasks[t].st = "pending"
        /\ \A c \in 1..3 :
              /\ callers[c].pc = "waiting"
              /\ callers[c].aw.t = t
              /\ callers[c].kind = tasks[t].kind
              /\ callers[c].key = tasks[t].key

\* the provider calls of one blog key that an upstream task is waiting for
CallingFor(key) ==
    {t \in TaskIds : tasks[t].kind = "blog" /\ tasks[t].key = key /\ Calling(t)}

BlogKeys == {tasks[t].key : t \in {u \in TaskIds : tasks[u].kind = "blog"}}

\* C8 as stated: at most one provider call per key is outstanding, the calls
\* abandoned by the engine's timeout and still running included.
C8_OneOutstandingCall ==
    \A key \in BlogKeys : Cardinality(CallingFor(key)) + AbandonedCount(key) <= 1

\* C8, amended: at most one provider call per key is outstanding among the
\* calls an upstream task still waits for; a call abandoned by the engine's
\* timeout may run beside the call of a later request for the same key.
C8_OneAwaitedCall ==
    \A t1, t2 \in TaskIds :
        (/\ Calling(t1) /\ Calling(t2)
         /\ tasks[t1].kind = tasks[t2].kind /\ tasks[t1].key = tasks[t2].key)
            => t1 = t2

\* C8, reached: a task was rejected by the timeout, its call runs on, and a
\* later request for the same key has its own call outstanding
C8_Witness ==
    \E t0, t \in TaskIds :
        /\ t0 < t
        /\ tasks[t0].kind = "blog" /\ tasks[t0].st = "rejected" /\ tasks[t0].err = "timeout"
        /\ tasks[t].kind = "blog" /\ tasks[t].key = tasks[t0].key /\ Calling(t)
        /\ AbandonedCount(tasks[t].key) = 1

\* C9 (failures are never cached): a registry entry names an unsettled task
\* only, so it is gone once its task has settled either way; a cache entry
\* holds the value of a resolved task only; a caller that awaited a rejected
\* task ends with that task's error; and a request whose key has neither a
\* live cache entry nor an unsettled task starts a new upstream task, so
\* the request after a failure does.
C9_FailuresNotCached ==
    /\ [](\A kind \in {"research", "blog"} : \A key \in DOMAIN FlightOf(kind) :
            /\ tasks[FlightOf(kind)[key]].st = "pending"
            /\ tasks[FlightOf(kind)[key]].kind = kind
            /\ tasks[FlightOf(kind)[key]].key = key)
    /\ [](\A kind \in {"research", "blog"} : \A key \in DOMAIN CacheOf(kind) :
            tasks[CacheOf(kind)[key].data.src].st = "resolved")
    /\ [](\A c \in CallerIds :
            (/\ callers[c].pc = "done" /\ callers[c].aw.t > 0
             /\ tasks[callers[c].aw.t].st = "rejected")
                => /\ callers[c].got.st = "rejected"
                   /\ callers[c].got.err = tasks[callers[c].aw.t].err)
    /\ [][\A c \in CallerIds :
            Requests(c) =>
                LET kind == callers'[c].kind
                    key == callers'[c].key
                    live == IF key \in DOMAIN CacheOf(kind)
                            THEN CacheOf(kind)[key].expiresAt > now ELSE FALSE
                IN (~live /\ PendingFor(kind, key) = {})
                       => /\ Len(tasks') = Len(tasks) + 1
                          /\ callers'[c].aw = TaskRef(Len(tasks'))
                          /\ tasks'[Len(tasks')].kind = kind
                          /\ tasks'[Len(tasks')].key = key]_vars

\* C9, reached: two callers got the rejection of the task they shared, nothing
\* was cached or left in the registry, and a third caller with that key got a
\* later task
C9_Witness ==
    \E t \in TaskIds :
        /\ tasks[t].st = "rejected"
        /\ tasks[t].key \notin DOMAIN CacheOf(tasks[t].kind)
        /\ \A c \in 1..2 :
              /\ callers[c].pc = "done"
              /\ callers[c].aw.t = t
              /\ callers[c].got.st = "rejected"
        /\ callers[3].pc # "idle"
        /\ callers[3].kind = tasks[t].kind
        /\ callers[3].key = tasks[t].key
        /\ callers[3].aw.t > t

\* C10 (TTL strictness): a request that finds an entry stored at time T for
\* its key is served from the cache, that entry's value and no upstream task,
\* exactly when it is made at a time now < T + 24h; made at now >= T + 24h,
\* at now = T + 24h too, it is handed an upstream task.  Every entry expires
\* 24h after it was stored.  Both caches.
C10_TTLStrict ==
    /\ \A kind \in {"research", "blog"} : \A key \in DOMAIN CacheOf(kind) :
          CacheOf(kind)[key].expiresAt = CacheOf(kind)[key].storedAt + 24 * 60 * 60 * 1000
    /\ \A c \in CallerIds :
          (callers[c].pc # "idle" /\ callers[c].entryAt >= 0) =>
              IF callers[c].at < callers[c].entryAt + 24 * 60 * 60 * 1000
              THEN /\ callers[c].aw.t = 0
                   /\ callers[c].aw.src \in TaskIds
                   /\ tasks[callers[c].aw.src].kind = callers[c].kind
                   /\ tasks[callers[c].aw.src].key = callers[c].key
              ELSE /\ callers[c].aw.t > 0
                   /\ tasks[callers[c].aw.t].kind = callers[c].kind
                   /\ tasks[callers[c].aw.t].key = callers[c].key

\* C10, reached: one reader was served from the cache in the last millisecond
\* of an entry, the other asked at the instant the entry expired and was
\* handed a task
C10_Witness ==
    \E c1, c2 \in CallerIds :
        /\ callers[c1].pc # "idle" /\ callers[c1].entryAt >= 0
        /\ callers[c1].at = callers[c1].entryAt + TtlOf(callers[c1].kind) - 1
        /\ callers[c1].aw.t = 0
        /\ callers[c2].pc # "idle" /\ callers[c2].entryAt >= 0
        /\ callers[c2].at = callers[c2].entryAt + TtlOf(callers[c2].kind)
        /\ callers[c2].aw.t > 0

----------------------------------------------------------------------------
(* Properties of the offline task queue *)

ActiveDrains == {d \in DrainIds : drains[d].pc # "idle"}
EnqueuedIds == 1..(nextId - 1)

\* the number of artifacts in history that were built for the queued task id
Artifacts(id) == Cardinality({i \in 1..Len(blogs) : blogs[i].task = id})

\* the queued tasks some running invocation is waiting on an unsettled
\* research or generation call for
InGeneration ==
    {drains[d].task.id : d \in {e \in ActiveDrains : ~Settled(drains[e].aw)}}

\* C2 (one at a time, FIFO): at any moment the running invocations of
\* processQueue are waiting on the calls of at most one queued task, so no
\* task is begun while the task ahead of it is still being processed.  (A
\* task taken out by removeTask while it is processed is not counted.)
C2_OneTaskAtATime == Cardinality(InGeneration \ removedById) <= 1

\* C3 (no task lost): a task that is no longer queued has succeeded, was
\* dropped by its own third failure, or was removed by removeTask.
C3_NoTaskLost ==
    \A id \in EnqueuedIds :
        id \notin Ids(queuedTasks) => id \in succeeded \cup dropped \cup removedById

\* C4 (one artifact per task): no queued task has more than one artifact in
\* history; a task whose processing succeeded has one, a dropped task none.
C4_OneArtifact ==
    \A id \in EnqueuedIds :
        /\ Artifacts(id) <= 1
        /\ id \in succeeded => Artifacts(id) = 1
        /\ (id \in dropped /\ id \notin succeeded) => Artifacts(id) = 0

\* C5 (drop after 3 failures): no task in the queue carries attempts of 3 or
\* more, and a task whose processing has failed 3 times is not in the queue.
C5_DropAfterThree ==
    /\ \A i \in 1..Len(queuedTasks) : queuedTasks[i].attempts < 3
    /\ \A id \in EnqueuedIds : failures[id] >= 3 => id \notin Ids(queuedTasks)

\* C5, reached: a task was dropped by the drain that recorded its third failure
C5_Witness ==
    \E id \in dropped : failures[id] = 3 /\ id \notin Ids(queuedTasks)

\* C6 (stop on non-terminal failure): when an invocation of processQueue
\* finds that the processing of the head task has failed and the failure
\* leaves the head with attempts < 3, the step ends the invocation, keeps the
\* queue in its order, changes nothing but the head's attempts (by one),
\* starts no upstream task, and no task behind the head has been begun by
\* that invocation.
C6_StopOnFailure ==
    [][\A d \in DrainIds :
          (/\ drains[d].pc # "idle"
           /\ drains'[d] # drains[d]
           /\ Outcome(drains[d].aw).st = "rejected"
           /\ queuedTasks # <<>>
           /\ queuedTasks[1].id = drains[d].task.id
           /\ queuedTasks[1].attempts + 1 < 3)
              => /\ drains'[d].pc = "idle"
                 /\ Len(queuedTasks') = Len(queuedTasks)
                 /\ queuedTasks'[1] = [queuedTasks[1] EXCEPT !.attempts = @ + 1]
                 /\ \A i \in 2..Len(queuedTasks) :
                       /\ queuedTasks'[i] = queuedTasks[i]
                       /\ queuedTasks[i].id \notin drains[d].begun
                 /\ tasks' = tasks]_vars

\* C6, reached: the queue is [A, B, C]; the failure of A's processing has
\* reached two invocations; the first has ended, leaving A with one attempt
\* and B, C as they were, and the second has not run yet
C6_Witness ==
    /\ Len(queuedTasks) = 3
    /\ queuedTasks[1].attempts = 1
    /\ failures[queuedTasks[1].id] = 1
    /\ queuedTasks[2].attempts = 0 /\ queuedTasks[3].attempts = 0
    /\ blogs = <<>>
    /\ Len(tasks) = 1
    /\ \E d \in ActiveDrains :
          /\ ActiveDrains = {d}
          /\ drains[d].task.id = queuedTasks[1].id
          /\ Outcome(drains[d].aw).st = "rejected"

\* C7 (replay), for tasks enqueued offline and a backend that succeeds: once
\* the replay is over (the queue is empty and no invocation of processQueue
\* is running) every enqueued task has exactly one artifact in history.
C7_ReplayOneArtifact ==
    (queuedTasks = <<>> /\ ActiveDrains = {}) =>
        \A id \in EnqueuedIds : Artifacts(id) = 1

----------------------------------------------------------------------------
(* Request equality: the key of a generation request *)

WithField(f, present, v) == IF present THEN f :> v ELSE EmptyMap

\* requests as the screens and processQueue build them: a topic, and
\* optionally research data, a word count and a tone
KeyRequests ==
    {[topic |-> t] @@ WithField("researchData", rd, "research")
                   @@ WithField("wordCount", wc # 0, wc)
                   @@ WithField("tone", tn # "", tn) :
        t \in Topics, rd \in BOOLEAN, wc \in {0, DefaultWordCount, 1000},
        tn \in {"", "conversational", "professional"}}

KeyInit ==
    /\ AppInit
    /\ requests \in KeyRequests \X KeyRequests
    /\ keys = <<>>
    /\ run = <<>> /\ delay = <<>> /\ parse = <<>> /\ lru = <<>> /\ logger = <<>>
    /\ monitor = <<>>

\* const key = blogKey(options), for each of the two requests
ComputeKeys ==
    /\ keys = <<>>
    /\ keys' = <<blogKey(requests[1]), blogKey(requests[2])>>
    /\ UNCHANGED <<appVars, requests, run, delay, parse, lru, logger, monitor>>

SpecKey == KeyInit /\ [][ComputeKeys]_vars

\* the normalized fields of a request: the topic trimmed and lower-cased,
\* whether it is generated with research data, the options with defaults
NormalizedRequest(r) ==
    [topic        |-> ToLowerCase(Trim(r.topic)),
     withResearch |-> "researchData" \in DOMAIN r,
     options      |-> [contentType    |-> Default(r, "contentType", "guide"),
                       targetAudience |-> Default(r, "targetAudience", "general"),
                       tone           |-> Default(r, "tone", "conversational"),
                       includeFAQ     |-> Default(r, "includeFAQ", TRUE),
                       includeSchema  |-> Default(r, "includeSchema", TRUE),
                       includeImages  |-> Default(r, "includeImages", FALSE),
                       wordCount      |-> Default(r, "wordCount", 2500)]]

\* C11 (request equality): two requests have the same key, and so share a
\* cache entry or an in-flight task, if and only if their normalized fields
\* (topic, withResearch, options with defaults) all match.
C11_RequestEquality ==
    keys # <<>> =>
        ((keys[1] = keys[2]) <=>
            (NormalizedRequest(requests[1]) = NormalizedRequest(requests[2])))

----------------------------------------------------------------------------
(* The retry engine on its own: one call of withRetry under any policy.    *)
(* The operation is a black box that is invoked, and later resolves or     *)
(* rejects; the engine races every invocation against a timer.             *)

\* NetworkService.isRetryableError; 0 stands for an undefined status code and
\* <<>> for an undefined original error
isRetryableError(statusCode, originalMessage) ==
    IF originalMessage # <<>>
       /\ (Includes(originalMessage, <<"t","i","m","e","o","u","t">>)
           \/ Includes(originalMessage, <<"E","C","O","N","N","R","E","S","E","T">>)
           \/ Includes(originalMessage, <<"E","N","O","T","F","O","U","N","D">>))
    THEN TRUE
    ELSE IF statusCode # 0
         THEN statusCode >= 500 \/ statusCode = 408 \/ statusCode = 429
         ELSE FALSE

\* variant: every error made by createNetworkError is marked retryable
AlwaysRetryable(e) ==
    LET statusCode == IF e = "unavailable" THEN 503 ELSE 0 IN
    [isNetworkError |-> IsNetworkError(e),
     retryable |-> IsNetworkError(e),
     statusCode |-> statusCode]

\* the fields createNetworkError gives an error; withRetry creates its network
\* error from a message alone (statusCode 0: undefined)
ErrorFields(e) ==
    LET statusCode == IF e = "unavailable" THEN 503 ELSE 0 IN
    [isNetworkError |-> IsNetworkError(e),
     retryable |-> IF IsNetworkError(e) THEN isRetryableError(statusCode, <<>>)
                   ELSE FALSE,
     statusCode |-> statusCode]

\* variant: the predicate decides by the message alone
MessageOnly(e) ==
    LET message == Message(e) IN
    \/ Includes(message, <<"n","e","t","w","o","r","k">>)
    \/ Includes(message, <<"t","i","m","e","o","u","t">>)
    \/ Includes(message, <<"c","o","n","n","e","c","t","i","o","n">>)
    \/ Includes(message, <<"f","e","t","c","h">>)

\* DEFAULT_OPTIONS.retryCondition
DefaultRetryCondition(e) ==
    IF ErrorFields(e).isNetworkError
    THEN ErrorFields(e).retryable
    ELSE LET message == Message(e) IN
         \/ Includes(message, <<"n","e","t","w","o","r","k">>)
         \/ Includes(message, <<"t","i","m","e","o","u","t">>)
         \/ Includes(message, <<"c","o","n","n","e","c","t","i","o","n">>)
         \/ Includes(message, <<"f","e","t","c","h">>)

RetryAnyway(cond, e) == TRUE

\* opts.retryCondition(lastError), for the predicates a caller passes
retryCondition(cond, e) ==
    CASE cond = "never" -> FALSE
      [] cond = "always" -> TRUE
      [] cond = "openai" -> OpenAIRetryCondition(e)
      [] OTHER -> DefaultRetryCondition(e)

RECURSIVE Pow(_, _)
Pow(b, n) == IF n = 0 THEN 1 ELSE b * Pow(b, n - 1)

UncappedDelay(attempt, options, random) ==
    options.baseDelay * Pow(options.backoffFactor, attempt - 1)

\* calculateDelay; Math.random() is random / RandomSteps
calculateDelay(attempt, options, random) ==
    LET exponentialDelay == options.baseDelay * Pow(options.backoffFactor, attempt - 1)
        cappedDelay == IF exponentialDelay < options.maxDelay
                       THEN exponentialDelay ELSE options.maxDelay
    IN  IF options.jitter
        THEN LET jitterRange == cappedDelay \div 10
                 jitter == ((2 * random - RandomSteps) * jitterRange) \div RandomSteps
             IN  IF cappedDelay + jitter < 0 THEN 0 ELSE cappedDelay + jitter
        ELSE cappedDelay

\* the values Math.random() takes when the delay is jittered
Randoms(options) == IF options.jitter THEN 0..(RandomSteps - 1) ELSE {0}

\* the options of a call, merged over DEFAULT_OPTIONS
Policies ==
    [maxAttempts : 1..MaxPolicyAttempts, retryCondition : {"default", "never", "always"},
     baseDelay : {1000}, backoffFactor : {2}, maxDelay : {30000},
     jitter : BOOLEAN]

Event(ev, attempt, n, error, ms) ==
    [ev |-> ev, attempt |-> attempt, n |-> n, error |-> error, ms |-> ms]

NeverLast(r) == FALSE

\* attempt === opts.maxAttempts
LastAttempt(r) == r.attempt = r.opts.maxAttempts

ThrowFirst(r) ==
    LET failed == SelectSeq(r.log, LAMBDA x : x.ev = "failed") IN
    IF failed = <<>> THEN r.lastError ELSE failed[1].error

\* throw lastError
Throw(r) == r.lastError

\* variant: the engine sleeps before it calls onRetry
SleepThenNotify(r, e, random) ==
    LET c == [r EXCEPT !.lastError = e,
                       !.log = Append(@, Event("failed", r.attempt, 0, e, 0))]
    IN  IF LastAttempt(c) \/ ~retryCondition(c.opts.retryCondition, e)
        THEN [c EXCEPT !.pc = "thrown", !.thrown = Throw(c)]
        ELSE LET d == calculateDelay(c.attempt, c.opts, random) IN
             [c EXCEPT !.pc = "sleep",
                       !.log = @ \o <<Event("sleep", c.attempt, 0, e, d),
                                      Event("onRetry", c.attempt, 0, e, 0)>>]

\* the catch block of attempt r.attempt, entered with error e, and what
\* follows the loop
Catch(r, e, random) ==
    LET c == [r EXCEPT !.lastError = e,
                       !.log = Append(@, Event("failed", r.attempt, 0, e, 0))]
    IN  IF LastAttempt(c) \/ ~retryCondition(c.opts.retryCondition, e)
        THEN [c EXCEPT !.pc = "thrown", !.thrown = Throw(c)]
        ELSE LET d == calculateDelay(c.attempt, c.opts, random) IN
             [c EXCEPT !.pc = "sleep",
                       !.log = @ \o <<Event("onRetry", c.attempt, 0, e, 0),
                                      Event("sleep", c.attempt, 0, e, d)>>]

\* variant: the operation is invoked without the connectivity check
AttemptUnchecked(r, random) ==
    LET a == [r EXCEPT !.attempt = @ + 1] IN
    [a EXCEPT !.pc = "race", !.invocations = @ + 1,
              !.running = @ \cup {a.invocations + 1},
              !.log = Append(@, Event("invoke", a.attempt, a.invocations + 1, "none", 0))]

\* the head of the loop body for the next attempt: the connectivity check,
\* then the invocation of the operation and the start of the race
Attempt(r, random) ==
    LET a == [r EXCEPT !.attempt = @ + 1] IN
    IF ~isOnline
    THEN Catch(a, "offline", random)
    ELSE [a EXCEPT !.pc = "race", !.invocations = @ + 1,
                   !.running = @ \cup {a.invocations + 1},
                   !.log = Append(@, Event("invoke", a.attempt, a.invocations + 1,
                                           "none", 0))]

\* withRetry(operation, options)
CallWithRetry ==
    /\ run.pc = "idle"
    /\ \E random \in Randoms(run.opts) : run' = Attempt(run, random)
    /\ UNCHANGED <<appVars, requests, keys, delay, parse, lru, logger, monitor>>

\* the n-th invocation of the operation resolves; its value is n.  The
\* engine is told only when that invocation is the one it is racing.
OperationResolves(n) ==
    /\ n \in run.running
    /\ LET r == [run EXCEPT !.running = @ \ {n},
                            !.log = Append(@, Event("resolved", 0, n, "none", 0))]
       IN  run' = IF run.pc = "race" /\ n = run.invocations
                  THEN [r EXCEPT !.pc = "returned", !.data = n,
                                 !.attempts = run.attempt]
                  ELSE r
    /\ UNCHANGED <<appVars, requests, keys, delay, parse, lru, logger, monitor>>

\* the n-th invocation of the operation rejects with e
OperationRejects(n, e) ==
    /\ n \in run.running
    /\ \E random \in Randoms(run.opts) :
          LET r == [run EXCEPT !.running = @ \ {n}] IN
          run' = IF run.pc = "race" /\ n = run.invocations
                 THEN Catch(r, e, random)
                 ELSE r
    /\ UNCHANGED <<appVars, requests, keys, delay, parse, lru, logger, monitor>>

\* the timer of the running race fires before the operation has settled
RaceTimeout ==
    /\ run.pc = "race"
    /\ \E random \in Randoms(run.opts) : run' = Catch(run, "timeout", random)
    /\ UNCHANGED <<appVars, requests, keys, delay, parse, lru, logger, monitor>>

\* the backoff sleep ends and the loop goes round
RetrySleepDone ==
    /\ run.pc = "sleep"
    /\ \E random \in Randoms(run.opts) : run' = Attempt(run, random)
    /\ UNCHANGED <<appVars, requests, keys, delay, parse, lru, logger, monitor>>

\* a call of withRetry that has not made its first attempt
RetryInit ==
    /\ AppInit
    /\ \E opts \in Policies :
          run = [opts |-> opts, pc |-> "idle", attempt |-> 0, invocations |-> 0,
                 running |-> {}, log |-> <<>>, lastError |-> "none", data |-> 0,
                 attempts |-> 0, thrown |-> "none"]
    /\ requests = <<>> /\ keys = <<>> /\ delay = <<>> /\ parse = <<>>
    /\ lru = <<>> /\ logger = <<>>
    /\ monitor = <<>>

\* the operation throws an error the default predicate rejects, one it
\* retries by its message, or a tagged error marked retryable
NextRetry ==
    \/ CallWithRetry
    \/ \E n \in run.running : OperationResolves(n)
    \/ \E n \in run.running : \E e \in {"fatal", "fetch", "unavailable"} :
          OperationRejects(n, e)
    \/ RaceTimeout
    \/ RetrySleepDone
    \/ \E ns \in FacadeNetStates : NetInfoEvent(ns)

SpecRetry == RetryInit /\ [][NextRetry]_vars

----------------------------------------------------------------------------
(* The backoff delay on its own: one call of calculateDelay with the delay *)
(* options of DEFAULT_OPTIONS and of the presets                           *)

DelayInit ==
    /\ AppInit
    /\ \E attempt \in 1..MaxBackoffAttempt,
          options \in [baseDelay : {1000, 2000}, backoffFactor : {2},
                       maxDelay : {30000, 20000, 16000, 10000}, jitter : BOOLEAN] :
          \E random \in Randoms(options) :
              delay = [attempt |-> attempt, options |-> options,
                       random |-> random, ms |-> -1]
    /\ requests = <<>> /\ keys = <<>> /\ run = <<>> /\ parse = <<>>
    /\ lru = <<>> /\ logger = <<>>
    /\ monitor = <<>>

\* const delayMs = this.calculateDelay(attempt, opts)
ComputeDelay ==
    /\ delay.ms = -1
    /\ delay' = [delay EXCEPT
                    !.ms = calculateDelay(delay.attempt, delay.options, delay.random)]
    /\ UNCHANGED <<appVars, requests, keys, run, parse, lru, logger, monitor>>

SpecDelay == DelayInit /\ [][ComputeDelay]_vars

----------------------------------------------------------------------------
(* Claims about the retry engine *)

EventsOf(r, ev) == SelectSeq(r.log, LAMBDA x : x.ev = ev)

\* the attempt in which invocation n was made
AttemptOf(r, n) ==
    LET inv == SelectSeq(r.log, LAMBDA x : x.ev = "invoke" /\ x.n = n) IN inv[1].attempt

\* the race of invocation n was lost to the timer before position i of the log
TimedOutBefore(r, n, i) ==
    \E j \in 1..(i - 1) : /\ r.log[j].ev = "failed"
                          /\ r.log[j].error = "timeout"
                          /\ r.log[j].attempt = AttemptOf(r, n)

InvocationsBounded == run.invocations <= run.opts.maxAttempts

FailsOnlyWhenDone ==
    run.pc = "thrown" =>
        \/ run.attempt = run.opts.maxAttempts
        \/ ~retryCondition(run.opts.retryCondition, run.lastError)

\* C12 as stated (attempts counts invocations): the operation is invoked at
\* most maxAttempts times; once the k-th invocation has succeeded the call has
\* returned that invocation's data with attempts = k and has made no further
\* invocation; a failed call has made maxAttempts attempts or its predicate
\* rejected the last error.
C12_AttemptsIsInvocation ==
    /\ InvocationsBounded
    /\ \A i \in 1..Len(run.log) :
          run.log[i].ev = "resolved" =>
              /\ run.pc = "returned"
              /\ run.data = run.log[i].n
              /\ run.attempts = run.log[i].n
              /\ run.invocations = run.log[i].n
    /\ FailsOnlyWhenDone

\* C12 (attempts counts loop rounds): the operation is invoked at most
\* maxAttempts times; once the invocation made in attempt k has succeeded
\* before the timer of that attempt, the call has returned that invocation's
\* data with attempts = k, k being at least the number of invocations, and
\* has neither invoked, called back nor slept since; a failed call has made maxAttempts attempts or
\* its predicate rejected the last error.
C12_AttemptsIsLoopRound ==
    /\ InvocationsBounded
    /\ \A i \in 1..Len(run.log) :
          (run.log[i].ev = "resolved" /\ ~TimedOutBefore(run, run.log[i].n, i)) =>
              /\ run.pc = "returned"
              /\ run.data = run.log[i].n
              /\ run.attempts = AttemptOf(run, run.log[i].n)
              /\ run.attempts >= run.log[i].n
              /\ run.invocations = run.log[i].n
              /\ \A j \in (i + 1)..Len(run.log) :
                    run.log[j].ev \notin {"invoke", "onRetry", "sleep"}
    /\ FailsOnlyWhenDone

\* the second invocation succeeded in the third attempt
C12_Witness ==
    /\ run.pc = "returned"
    /\ run.data = 2
    /\ run.attempts = 3

\* C13 (predicate always false): under a retry predicate that always returns
\* false, for every maxAttempts, no second attempt is ever made, nothing is
\* slept and onRetry is never called; once the attempt has failed the call has
\* failed with that attempt's error.
C13_NeverRetry ==
    run.opts.retryCondition = "never" =>
        /\ run.attempt <= 1
        /\ run.invocations <= 1
        /\ EventsOf(run, "sleep") = <<>>
        /\ EventsOf(run, "onRetry") = <<>>
        /\ EventsOf(run, "failed") # <<>> =>
              /\ run.pc = "thrown"
              /\ run.thrown = EventsOf(run, "failed")[1].error

\* with maxAttempts = 3 and an error the default predicate would retry
C13_Witness ==
    /\ run.opts.retryCondition = "never"
    /\ run.opts.maxAttempts = 3
    /\ run.pc = "thrown"
    /\ run.thrown = "fetch"
    /\ DefaultRetryCondition("fetch")

LastFailure(r) == EventsOf(r, "failed")[Len(EventsOf(r, "failed"))]

\* C14 (the final error is not swallowed): a failed call of withRetry fails
\* with the error of the last attempt made, the same value with the same
\* fields, and a call whose last attempt failed has not returned.
C14_LastErrorPropagated ==
    /\ run.pc = "thrown" =>
          /\ LastFailure(run).attempt = run.attempt
          /\ run.thrown = LastFailure(run).error
          /\ ErrorFields(run.thrown) = ErrorFields(LastFailure(run).error)
    /\ run.pc = "returned" =>
          \A i \in 1..Len(run.log) :
              run.log[i].ev = "failed" => run.log[i].attempt < run.attempt

\* the call failed with its third error, the two before it being different
C14_Witness ==
    /\ run.pc = "thrown"
    /\ Len(EventsOf(run, "failed")) = 3
    /\ EventsOf(run, "failed")[1].error = "offline"
    /\ EventsOf(run, "failed")[2].error = "fetch"
    /\ run.thrown = "fatal"

\* the delays of the default policy before jitter, then 30000 for ever
DefaultSchedule == <<1000, 2000, 4000, 8000, 16000, 30000, 30000>>

IsDefaultPolicy(options) ==
    options.baseDelay = 1000 /\ options.backoffFactor = 2 /\ options.maxDelay = 30000

\* the un-jittered delay of the same call
Unjittered(d) == calculateDelay(d.attempt, [d.options EXCEPT !.jitter = FALSE], 0)

\* C15 (backoff): without jitter the delay after failed attempt k is
\* min(baseDelay * backoffFactor^(k-1), maxDelay): it follows the schedule
\* 1000, 2000, 4000, 8000, 16000, 30000, 30000, ... under the default policy,
\* never exceeds maxDelay and is no smaller than the delay after attempt k-1;
\* with jitter the delay d satisfies d >= 0 and 0.9*u <= d <= 1.1*u, u being
\* the un-jittered delay.
C15_Backoff ==
    delay.ms # -1 =>
        LET u == Unjittered(delay)
            k == delay.attempt
            o == delay.options
        IN  /\ u <= o.maxDelay
            /\ \/ u = o.maxDelay
               \/ u = o.baseDelay * Pow(o.backoffFactor, k - 1)
            /\ u <= o.baseDelay * Pow(o.backoffFactor, k - 1)
            /\ IsDefaultPolicy(o) =>
                  u = IF k <= Len(DefaultSchedule) THEN DefaultSchedule[k] ELSE 30000
            /\ k > 1 => calculateDelay(k - 1, [o EXCEPT !.jitter = FALSE], 0) <= u
            /\ ~o.jitter => delay.ms = u
            /\ o.jitter => /\ delay.ms >= 0
                           /\ 9 * u <= 10 * delay.ms
                           /\ 10 * delay.ms <= 11 * u

\* a jittered delay of the capped part of the default schedule, off its centre
C15_Witness ==
    /\ delay.ms # -1
    /\ IsDefaultPolicy(delay.options)
    /\ delay.options.jitter
    /\ delay.attempt = 6
    /\ delay.ms < 30000

----------------------------------------------------------------------------
(* The parse block of the blog operation on its own: what the upstream     *)
(* task does with the text of the provider's response.  A response is a    *)
(* short text over a small alphabet: a space, a word character, the two    *)
(* braces, and T and C, which abbreviate the members "title":"t" and       *)
(* "content":"c" of a JSON object.                                         *)

RECURSIVE Texts(_)
Texts(n) ==
    IF n = 0 THEN {<<>>}
    ELSE LET shorter == Texts(n - 1) IN
         shorter \cup {Append(s, c) : s \in {x \in shorter : Len(x) = n - 1},
                                      c \in {" ", "w", "{", "}", "T", "C"}}

Positions(s, c) == {i \in 1..Len(s) : s[i] = c}

\* content.match(/\{[\s\S]*\}/): from the first { to the last } after it;
\* <<>> stands for null
JsonMatch(content) ==
    IF Positions(content, "{") = {} THEN <<>>
    ELSE LET opening == Positions(content, "{")
             i == CHOOSE x \in opening : \A y \in opening : x <= y
             closing == {j \in Positions(content, "}") : j > i}
         IN  IF closing = {} THEN <<>>
             ELSE SubSeq(content, i, CHOOSE x \in closing : \A y \in closing : x >= y)

\* JSON.parse of a matched text: an object of members and white space, or a
\* SyntaxError
JSONparse(text) ==
    LET inner == SubSeq(text, 2, Len(text) - 1) IN
    IF \A i \in 1..Len(inner) : inner[i] \in {" ", "T", "C"}
    THEN [ok |-> TRUE,
          title |-> IF Positions(inner, "T") # {} THEN <<"t">> ELSE <<>>,
          content |-> IF Positions(inner, "C") # {} THEN <<"c">> ELSE <<>>]
    ELSE [ok |-> FALSE, title |-> <<>>, content |-> <<>>]

\* content.split(/\s+/)
RECURSIVE SplitSpaces(_)
SplitSpaces(s) ==
    IF Positions(s, " ") = {} THEN <<s>>
    ELSE LET spaces == Positions(s, " ")
             i == CHOOSE x \in spaces : \A y \in spaces : x <= y
         IN  <<SubSeq(s, 1, i - 1)>> \o SplitSpaces(TrimStart(SubSeq(s, i, Len(s))))

\* .filter((word) => word.length > 0).length
WordCount(s) == Len(SelectSeq(SplitSpaces(s), LAMBDA word : Len(word) > 0))

createFallbackBlogData(topic, content) ==
    LET wordCount == WordCount(content) IN
    [title |-> <<"T","h","e"," ","C","o","m","p","l","e","t","e"," ","G","u","i","d",
                 "e"," ","t","o"," ">> \o topic,
     content |-> content,
     faqSection |-> <<[question |-> <<"W","h","a","t"," ","i","s"," ">> \o topic \o <<"?">>]>>,
     seoScore |-> 75,
     readingTime |-> (wordCount + 199) \div 200,
     wordCount |-> wordCount]

ParseOrThrow(topic, content) == [st |-> "rejected", value |-> <<>>, error |-> "parse"]

\* the upstream task of the blog operation from the response on: every throw
\* of the try block ends in its catch block, which returns the fallback
ParseResponse(topic, content) ==
    LET fallback == [st |-> "resolved", error |-> "none",
                     value |-> createFallbackBlogData(topic, content)]
    IN  IF content = <<>>
        THEN [st |-> "rejected", value |-> <<>>, error |-> "nocontent"]
        ELSE LET jsonMatch == JsonMatch(content) IN
             IF jsonMatch = <<>>
             THEN fallback
             ELSE LET blogData == JSONparse(jsonMatch) IN
                  IF ~blogData.ok
                  THEN fallback
                  ELSE IF blogData.title = <<>> \/ blogData.content = <<>>
                       THEN fallback
                       ELSE [st |-> "resolved", error |-> "none",
                             value |-> [title |-> blogData.title,
                                        content |-> blogData.content,
                                        readingTime |->
                                            (Len(SplitSpaces(blogData.content)) + 199) \div 200,
                                        wordCount |-> WordCount(blogData.content)]]

\* a response has arrived for a request with an empty or a one-letter topic
ParseInit ==
    /\ AppInit
    /\ \E topic \in {<<>>, <<"a">>}, content \in Texts(MaxResponseLen) :
          parse = [topic |-> topic, content |-> content, pc |-> "received",
                   outcome |-> [st |-> "rejected", value |-> <<>>, error |-> "none"]]
    /\ requests = <<>> /\ keys = <<>> /\ run = <<>> /\ delay = <<>>
    /\ lru = <<>> /\ logger = <<>>
    /\ monitor = <<>>

\* the task runs from the response to its end
TaskParses ==
    /\ parse.pc = "received"
    /\ parse' = [parse EXCEPT !.pc = "settled",
                              !.outcome = ParseResponse(parse.topic, parse.content)]
    /\ UNCHANGED <<appVars, requests, keys, run, delay, lru, logger, monitor>>

SpecParse == ParseInit /\ [][TaskParses]_vars

----------------------------------------------------------------------------
(* Claims about the parse block *)

\* the text holds a JSON object with a title and a content: between its first
\* { and its last } there are only members and spaces, both members among them
IsBlogJSON(s) ==
    \E i, j \in 1..Len(s) :
        /\ i < j
        /\ s[i] = "{" /\ s[j] = "}"
        /\ \A k \in 1..(i - 1) : s[k] # "{"
        /\ \A k \in (j + 1)..Len(s) : s[k] # "}"
        /\ \A k \in (i + 1)..(j - 1) : s[k] \in {" ", "T", "C"}
        /\ \E k \in (i + 1)..(j - 1) : s[k] = "T"
        /\ \E k \in (i + 1)..(j - 1) : s[k] = "C"

\* the number of maximal runs of characters that are not white space
Tokens(s) ==
    Cardinality({i \in 1..Len(s) : s[i] # " " /\ (i = 1 \/ s[i - 1] = " ")})

\* C16 (parse failures are recovered): for a non-empty response that is not
\* a JSON object with a title and a content, the task resolves with the
\* fallback object: a non-empty title, a non-empty FAQ array and a wordCount
\* equal to the number of white-space separated tokens of the raw text.
C16_ParseFallback ==
    (parse.pc = "settled" /\ parse.content # <<>> /\ ~IsBlogJSON(parse.content)) =>
        /\ parse.outcome.st = "resolved"
        /\ parse.outcome.value.title # <<>>
        /\ parse.outcome.value.faqSection # <<>>
        /\ parse.outcome.value.content = parse.content
        /\ parse.outcome.value.wordCount = Tokens(parse.content)

\* a word, then a JSON object that lacks its content
C16_Witness ==
    /\ parse.pc = "settled"
    /\ parse.content = <<"w", "{", "T", "}">>
    /\ JSONparse(JsonMatch(parse.content)).ok
    /\ parse.outcome.st = "resolved"
    /\ parse.outcome.value.wordCount = 1

----------------------------------------------------------------------------
(* The LRU cache on its own.  A JavaScript Map iterates in insertion       *)
(* order: it is a sequence of entries, oldest insertion first.             *)

MapHas(map, key) == \E i \in 1..Len(map) : map[i].key = key

\* Map.get: the value, or undefined
MapGet(map, key) ==
    IF MapHas(map, key)
    THEN LET i == CHOOSE i \in 1..Len(map) : map[i].key = key IN map[i].value
    ELSE "undefined"

\* Map.delete
MapRemove(map, key) == SelectSeq(map, LAMBDA entry : entry.key # key)

\* Map.set: an existing key keeps its place, a new key goes last
MapPut(map, key, value) ==
    IF MapHas(map, key)
    THEN [i \in 1..Len(map) |->
             IF map[i].key = key THEN [key |-> key, value |-> value] ELSE map[i]]
    ELSE Append(map, [key |-> key, value |-> value])

NoRefresh(map, key, value) == map

\* this.map.delete(key); this.map.set(key, value)
Refresh(map, key, value) == MapPut(MapRemove(map, key), key, value)

LastKey(map) == map[Len(map)].key

\* this.map.keys().next().value
FirstKey(map) == map[1].key

\* a new cache; its keys are numbers.  The calls made are recorded, each with
\* the map it found and, for every key, the number of the last call that set
\* it or got a value for it (0: none)
LruInit ==
    /\ AppInit
    /\ \E maxSize \in 1..MaxLruSize :
          lru = [maxSize |-> maxSize, map |-> <<>>,
                 used |-> [k \in 1..(MaxLruSize + 1) |-> 0], calls |-> <<>>]
    /\ requests = <<>> /\ keys = <<>> /\ run = <<>> /\ delay = <<>>
    /\ parse = <<>> /\ logger = <<>>
    /\ monitor = <<>>

\* cache.get(key)
get(key) ==
    /\ Len(lru.calls) < MaxLruCalls
    /\ LET value == MapGet(lru.map, key) IN
       lru' = [lru EXCEPT
                  !.map = IF value # "undefined" THEN Refresh(@, key, value) ELSE @,
                  !.used = IF value # "undefined"
                           THEN [@ EXCEPT ![key] = Len(lru.calls) + 1] ELSE @,
                  !.calls = Append(@, [op |-> "get", key |-> key, value |-> value,
                                       map |-> lru.map, used |-> lru.used])]
    /\ UNCHANGED <<appVars, requests, keys, run, delay, parse, logger, monitor>>

\* variant: a full cache evicts its first key on every set, without looking
\* whether the key is present
SetEvictsWhenFull(key, value) ==
    /\ Len(lru.calls) < MaxLruCalls
    /\ LET kept == IF Len(lru.map) >= lru.maxSize /\ lru.map # <<>>
                   THEN MapRemove(lru.map, FirstKey(lru.map))
                   ELSE lru.map
       IN  lru' = [lru EXCEPT
                      !.map = MapPut(kept, key, value),
                      !.used = [@ EXCEPT ![key] = Len(lru.calls) + 1],
                      !.calls = Append(@, [op |-> "set", key |-> key, value |-> value,
                                           map |-> lru.map, used |-> lru.used])]
    /\ UNCHANGED <<appVars, requests, keys, run, delay, parse, logger, monitor>>

\* cache.set(key, value)
set(key, value) ==
    /\ Len(lru.calls) < MaxLruCalls
    /\ LET kept == IF MapHas(lru.map, key)
                   THEN MapRemove(lru.map, key)
                   ELSE IF Len(lru.map) >= lru.maxSize
                        THEN IF lru.map # <<>>
                             THEN MapRemove(lru.map, FirstKey(lru.map))
                             ELSE lru.map
                        ELSE lru.map
       IN  lru' = [lru EXCEPT
                      !.map = MapPut(kept, key, value),
                      !.used = [@ EXCEPT ![key] = Len(lru.calls) + 1],
                      !.calls = Append(@, [op |-> "set", key |-> key, value |-> value,
                                           map |-> lru.map, used |-> lru.used])]
    /\ UNCHANGED <<appVars, requests, keys, run, delay, parse, logger, monitor>>

NextLru ==
    \/ \E key \in 1..(MaxLruSize + 1) : get(key)
    \/ \E key \in 1..(MaxLruSize + 1), value \in {"undefined", "v", "w"} : set(key, value)

SpecLru == LruInit /\ [][NextLru]_vars

----------------------------------------------------------------------------
(* Claims about the LRU cache *)

KeysOf(map) == {map[i].key : i \in 1..Len(map)}

\* the key of the map that was least recently set or successfully got
LeastRecentlyUsed(map, used) ==
    CHOOSE k \in KeysOf(map) : \A other \in KeysOf(map) : used[k] <= used[other]

LastCall == lru.calls[Len(lru.calls)]

\* the last call was a set of a new key into a full cache
EvictingSet ==
    /\ lru.calls # <<>>
    /\ LastCall.op = "set"
    /\ LastCall.key \notin KeysOf(LastCall.map)
    /\ Len(LastCall.map) = lru.maxSize

\* C17 (eviction): a set of a key that is not present into a cache holding
\* maxSize entries evicts exactly the least recently used entry and keeps
\* every other entry with its value; after maxSize + 1 sets of distinct keys
\* into an empty cache exactly the first of the keys is absent.
C17_EvictsLeastRecentlyUsed ==
    /\ EvictingSet =>
          LET gone == LeastRecentlyUsed(LastCall.map, LastCall.used) IN
          /\ KeysOf(lru.map) = (KeysOf(LastCall.map) \ {gone}) \cup {LastCall.key}
          /\ Len(lru.map) = lru.maxSize
          /\ \A k \in KeysOf(LastCall.map) \ {gone} :
                MapGet(lru.map, k) = MapGet(LastCall.map, k)
          /\ MapGet(lru.map, LastCall.key) = LastCall.value
    /\ ( /\ Len(lru.calls) = lru.maxSize + 1
         /\ \A i \in 1..Len(lru.calls) : lru.calls[i].op = "set"
         /\ \A i, j \in 1..Len(lru.calls) :
               i # j => lru.calls[i].key # lru.calls[j].key )
       => KeysOf(lru.map) = {lru.calls[i].key : i \in 2..Len(lru.calls)}

\* three sets of distinct keys into an empty cache of two entries
C17_Witness ==
    /\ EvictingSet
    /\ lru.maxSize = 2
    /\ Len(lru.calls) = 3
    /\ \A i \in 1..3 : lru.calls[i].op = "set"
    /\ KeysOf(lru.map) = {lru.calls[2].key, lru.calls[3].key}
    /\ lru.calls[1].key \notin KeysOf(lru.map)

\* the call before the last was a get of the least recently used key of a
\* full cache
GetOfLeastRecentlyUsed ==
    /\ Len(lru.calls) >= 2
    /\ LET before == lru.calls[Len(lru.calls) - 1] IN
       /\ before.op = "get"
       /\ before.key \in KeysOf(before.map)
       /\ Len(before.map) = lru.maxSize
       /\ LeastRecentlyUsed(before.map, before.used) = before.key

\* the key got survived the set that followed, with its value
Survived ==
    LET before == lru.calls[Len(lru.calls) - 1] IN
    /\ before.key \in KeysOf(lru.map)
    /\ MapGet(lru.map, before.key) = MapGet(before.map, before.key)
    /\ \E other \in KeysOf(LastCall.map) \ {before.key} : other \notin KeysOf(lru.map)

\* C18 as stated (any full cache, any present key): after a get of the least
\* recently used key of a full cache, the set of a new key evicts another
\* key and the key got is still in the cache.
C18_GetRefreshesAnyKey == (GetOfLeastRecentlyUsed /\ EvictingSet) => Survived

\* C18 (recency refresh): in a cache of at least two entries, after a get
\* that returned the value of the least recently used key of the full cache,
\* the set of a new key evicts another key and the key got is still in the
\* cache with its value.
C18_GetRefreshes ==
    ( /\ GetOfLeastRecentlyUsed
      /\ EvictingSet
      /\ lru.maxSize >= 2
      /\ lru.calls[Len(lru.calls) - 1].value # "undefined" ) => Survived

\* set 1, set 2, get 1, set 3 on a cache of two entries: 2 is evicted
C18_Witness ==
    /\ GetOfLeastRecentlyUsed
    /\ EvictingSet
    /\ lru.maxSize = 2
    /\ lru.calls[Len(lru.calls) - 1].value # "undefined"
    /\ Survived

----------------------------------------------------------------------------
(* The logger on its own.  A logged value is a record tagged with its      *)
(* type: a number (num), a string (str), an Error (err), an array (arr) or *)
(* a plain object (obj: its fields, each a key k and a value v).           *)

LEVELS == [debug |-> 10, info |-> 20, warn |-> 30, error |-> 40]

SENSITIVE_KEYS ==
    << <<"a","p","i">>, <<"k","e","y">>, <<"t","o","k","e","n">>,
       <<"s","e","c","r","e","t">>,
       <<"a","u","t","h","o","r","i","z","a","t","i","o","n">>,
       <<"p","a","s","s","w","o","r","d">>, <<"c","o","n","t","e","n","t">> >>

REDACTED == [t |-> "str", s |-> <<"[","R","E","D","A","C","T","E","D","]">>]

IsSensitiveAsWritten(text) ==
    \E i \in 1..Len(SENSITIVE_KEYS) : Includes(text, SENSITIVE_KEYS[i])

\* SENSITIVE_KEYS.some((p) => text.toLowerCase().includes(p))
IsSensitive(text) ==
    \E i \in 1..Len(SENSITIVE_KEYS) : Includes(ToLowerCase(text), SENSITIVE_KEYS[i])

RECURSIVE sanitize(_)
sanitize(value) ==
    CASE value.t = "err" ->
           [t |-> "obj",
            fields |-> <<[k |-> <<"n","a","m","e">>,
                          v |-> [t |-> "str", s |-> value.name]],
                         [k |-> <<"m","e","s","s","a","g","e">>,
                          v |-> sanitize([t |-> "str", s |-> value.message])]>>]
      [] value.t = "str" -> IF IsSensitive(value.s) THEN REDACTED ELSE value
      [] value.t = "arr" ->
           [t |-> "arr", items |-> [i \in 1..Len(value.items) |-> sanitize(value.items[i])]]
      [] value.t = "obj" ->
           [t |-> "obj",
            fields |-> [i \in 1..Len(value.fields) |->
                           LET k == value.fields[i].k IN
                           IF IsSensitive(k)
                           THEN [k |-> k, v |-> REDACTED]
                           ELSE [k |-> k, v |-> sanitize(value.fields[i].v)]]]
      [] OTHER -> value

\* process.env.LOG_LEVEL: a level, a word that is no level, or "" (not set)
LogLevelSettings == {"", "debug", "info", "warn", "error", "verbose"}

LevelAtLoad(env) == LEVELS.debug

getCurrentLevel(env) ==
    LET envLevel == IF env.LOG_LEVEL # ""
                    THEN env.LOG_LEVEL
                    ELSE IF env.NODE_ENV = "production" THEN "warn" ELSE "debug"
    IN  IF envLevel \in DOMAIN LEVELS THEN LEVELS[envLevel] ELSE LEVELS.debug

\* logger.debug / info / warn / error with one argument; every call is
\* recorded with the environment it found and the console output it made
\* (<<>>: none)
log(level, arg) ==
    /\ logger' = [logger EXCEPT
                     !.calls = Append(@,
                         [level |-> level, arg |-> arg, env |-> logger.env,
                          output |-> IF LEVELS[level] < getCurrentLevel(logger.env)
                                     THEN <<>>
                                     ELSE <<[method |-> level, arg |-> sanitize(arg)]>>])]
    /\ UNCHANGED <<appVars, requests, keys, run, delay, parse, lru, monitor>>

\* process.env.LOG_LEVEL = setting, or delete process.env.LOG_LEVEL
SetLogLevel(setting) ==
    /\ logger.env.LOG_LEVEL # setting
    /\ logger' = [logger EXCEPT !.env.LOG_LEVEL = setting]
    /\ UNCHANGED <<appVars, requests, keys, run, delay, parse, lru, monitor>>

\* the module has been loaded; LOG_LEVEL is not set yet
LoggerInit ==
    /\ AppInit
    /\ \E nodeEnv \in {"production", "development"} :
          logger = [env |-> [LOG_LEVEL |-> "", NODE_ENV |-> nodeEnv], calls |-> <<>>]
    /\ requests = <<>> /\ keys = <<>> /\ run = <<>> /\ delay = <<>>
    /\ parse = <<>> /\ lru = <<>>
    /\ monitor = <<>>

\* a number, a harmless string, a string that holds a sensitive word, an Error
LogLeaves ==
    {[t |-> "num", n |-> 1],
     [t |-> "str", s |-> <<"o","k">>],
     [t |-> "str", s |-> <<"m","y"," ","t","o","k","e","n">>],
     [t |-> "err", name |-> <<"E","r","r","o","r">>,
      message |-> <<"b","a","d"," ","k","e","y">>]}

\* the values nested up to MaxNesting deep: arrays and objects of one member
\* (under apiKey, TOKEN or id) around any shallower value, and objects of two
\* members around leaves
LogValues ==
    LET RECURSIVE Nest(_)
        Nest(n) ==
            IF n = 0 THEN LogLeaves
            ELSE LET inner == Nest(n - 1) IN
                 inner
                 \cup {[t |-> "arr", items |-> <<v>>] : v \in inner}
                 \cup {[t |-> "obj", fields |-> <<[k |-> k, v |-> v]>>] :
                          k \in { <<"a","p","i","K","e","y">>, <<"T","O","K","E","N">>,
                                  <<"i","d">> },
                          v \in inner}
                 \cup {[t |-> "obj",
                        fields |-> <<[k |-> <<"a","p","i","K","e","y">>, v |-> v],
                                     [k |-> <<"i","d">>, v |-> w]>>] :
                          v \in LogLeaves, w \in LogLeaves}
    IN  Nest(MaxNesting)

\* the level is set, then one call logs a nested value
NextSanitize ==
    \/ \E setting \in LogLevelSettings : logger.calls = <<>> /\ SetLogLevel(setting)
    \/ \E level \in DOMAIN LEVELS, arg \in LogValues :
          logger.calls = <<>> /\ log(level, arg)

SpecSanitize == LoggerInit /\ [][NextSanitize]_vars

\* calls that log a message, the level setting changing between them
NextLogger ==
    \/ \E setting \in LogLevelSettings : SetLogLevel(setting)
    \/ \E level \in DOMAIN LEVELS :
          /\ Len(logger.calls) < MaxLogCalls
          /\ log(level, [t |-> "str", s |-> <<"i","n","f","o"," ","m","e","s","s","a","g","e">>])

SpecLogger == LoggerInit /\ [][NextLogger]_vars

----------------------------------------------------------------------------
(* Claims about the logger *)

Str(s) == [t |-> "str", s |-> s]
Arr(items) == [t |-> "arr", items |-> items]
Obj(fields) == [t |-> "obj", fields |-> fields]
Field(k, v) == [k |-> k, v |-> v]

\* the keys of the logged values whose name contains a sensitive substring
\* in some case: apiKey (api, key) and TOKEN (token)
SensitiveNames == { <<"a","p","i","K","e","y">>, <<"T","O","K","E","N">> }

\* written is the logged representation of value: every member under a
\* sensitive name is the marker, at every depth; arrays keep their length,
\* objects keep their keys, numbers are unchanged, strings stay strings (the
\* same one unless it holds a sensitive substring itself) and an Error is
\* reduced to its name and message
RECURSIVE Represents(_, _)
Represents(written, value) ==
    CASE value.t = "obj" ->
           /\ written.t = "obj"
           /\ Len(written.fields) = Len(value.fields)
           /\ \A i \in 1..Len(value.fields) :
                 /\ written.fields[i].k = value.fields[i].k
                 /\ IF value.fields[i].k \in SensitiveNames
                    THEN written.fields[i].v = REDACTED
                    ELSE Represents(written.fields[i].v, value.fields[i].v)
      [] value.t = "arr" ->
           /\ written.t = "arr"
           /\ Len(written.items) = Len(value.items)
           /\ \A i \in 1..Len(value.items) : Represents(written.items[i], value.items[i])
      [] value.t = "str" ->
           /\ written.t = "str"
           /\ written = value \/ written = REDACTED
           /\ value = Str(<<"o","k">>) => written = value
      [] value.t = "err" ->
           /\ written.t = "obj"
           /\ Len(written.fields) = 2
      [] OTHER -> written = value

\* C19 (sanitized logging): in what a log call writes, the value under every
\* mapping key whose name contains a sensitive substring, in any case, is the
\* marker "[REDACTED]", at every nesting depth, inside arrays and objects, and
\* the values under the other keys keep their structure.
C19_Redaction ==
    \A i \in 1..Len(logger.calls) :
        logger.calls[i].output # <<>> =>
            Represents(logger.calls[i].output[1].arg, logger.calls[i].arg)

\* {id: [{TOKEN: "ok"}]} was written as {id: [{TOKEN: "[REDACTED]"}]}
C19_Witness ==
    /\ logger.calls # <<>>
    /\ logger.calls[1].arg =
          Obj(<<Field(<<"i","d">>, Arr(<<Obj(<<Field(<<"T","O","K","E","N">>,
                                                    Str(<<"o","k">>))>>)>>))>>)
    /\ logger.calls[1].output # <<>>
    /\ logger.calls[1].output[1].arg =
          Obj(<<Field(<<"i","d">>, Arr(<<Obj(<<Field(<<"T","O","K","E","N">>,
                                                    REDACTED)>>)>>))>>)

\* debug < info < warn < error
Severity(level) ==
    CHOOSE i \in 1..4 : <<"debug", "info", "warn", "error">>[i] = level

\* C20 (level filtering): a log call made while LOG_LEVEL names a level
\* writes to the console if and only if its own level is at least as severe
\* as the one LOG_LEVEL names at that moment, and then it writes its message
\* with the console method of its level.
C20_LevelFilter ==
    \A i \in 1..Len(logger.calls) :
        LET call == logger.calls[i] IN
        call.env.LOG_LEVEL \in {"debug", "info", "warn", "error"} =>
            /\ call.output # <<>> <=> Severity(call.level) >= Severity(call.env.LOG_LEVEL)
            /\ call.output # <<>> =>
                  /\ call.output[1].method = call.level
                  /\ call.output[1].arg = call.arg

\* LOG_LEVEL was set to warn after the module was loaded: logger.info wrote
\* nothing, then logger.warn wrote its message
C20_Witness ==
    /\ Len(logger.calls) = 2
    /\ logger.env.LOG_LEVEL = "warn"
    /\ logger.calls[1].level = "info"
    /\ logger.calls[1].env.LOG_LEVEL = "warn"
    /\ logger.calls[1].output = <<>>
    /\ logger.calls[2].level = "warn"
    /\ logger.calls[2].output # <<>>

----------------------------------------------------------------------------
(* Claims about the attempts counts and the progress of the queue *)

RECURSIVE SumAttempts(_)
SumAttempts(q) == IF q = <<>> THEN 0 ELSE Head(q).attempts + SumAttempts(Tail(q))

\* the upstream calls that have failed so far
RejectedCalls == {t \in TaskIds : tasks[t].st = "rejected"}

\* C21 (attempts counts the task's own failures): the attempts of every
\* queued task equals the number of failed processings of that task, and the
\* queue holds no more attempts than upstream calls have failed (no failure
\* is counted twice).
C21_AttemptsAreOwnFailures ==
    /\ \A i \in 1..Len(queuedTasks) :
          queuedTasks[i].attempts = failures[queuedTasks[i].id]
    /\ SumAttempts(queuedTasks) <= Cardinality(RejectedCalls)

\* The queue under the scheduling of the event loop: a continuation whose
\* awaited promise has settled runs, and an upstream call settles.  A new
\* connectivity notification is an event of the platform, which sends none
\* while the connectivity does not change: no fairness on it, nor on the user.
SpecProgress ==
    /\ Init /\ [][Next]_vars
    /\ WF_vars(\E d \in DrainIds : DrainResume(d))
    /\ WF_vars(\E t \in TaskIds : ProviderRespond(t, "json"))

\* a drain has stopped below the ceiling: the head task waits with 1 or 2
\* attempts, no invocation of processQueue runs, the monitor reports online
Stopped ==
    /\ isOnline
    /\ ActiveDrains = {}
    /\ queuedTasks # <<>>
    /\ queuedTasks[1].attempts \in 1..(QueueMaxAttempts - 1)

\* C22 (progress after a non-terminal failure): whenever a drain has stopped
\* on a head task with fewer than 3 attempts, then eventually the network
\* goes offline, or an invocation of processQueue runs again, or the task has
\* left the head of the queue: the task does not wait at the head forever
\* while the network stays online.
C22_ProgressWhileOnline == Stopped ~> ~Stopped

\* C23 (a terminal failure does not block the queue): when an invocation of
\* processQueue finds that the processing of the head task has failed and the
\* head has 2 attempts already, the step removes the head and leaves the rest
\* of the queue as it was, appends no artifact, and, if the monitor reports
\* online and a task is left, the same invocation begins the new head;
\* otherwise the invocation ends.
C23_TerminalFailureContinues ==
    [][\A d \in DrainIds :
          (/\ drains[d].pc # "idle"
           /\ drains'[d] # drains[d]
           /\ Outcome(drains[d].aw).st = "rejected"
           /\ queuedTasks # <<>>
           /\ queuedTasks[1].id = drains[d].task.id
           /\ queuedTasks[1].attempts + 1 >= 3)
              => /\ queuedTasks' = Tail(queuedTasks)
                 /\ blogs' = blogs
                 /\ IF isOnline /\ Tail(queuedTasks) # <<>>
                    THEN /\ drains'[d].pc \in {"research", "generate"}
                         /\ drains'[d].task = Tail(queuedTasks)[1]
                    ELSE drains'[d].pc = "idle"]_vars

\* C23, reached: an invocation has dropped a task at its third failure and
\* is processing the task that was queued behind it; the dropped task has no
\* artifact
C23_Witness ==
    \E d \in ActiveDrains :
        \E id \in dropped :
            /\ id \in drains[d].begun
            /\ id # drains[d].task.id
            /\ failures[id] = 3
            /\ Artifacts(id) = 0
            /\ queuedTasks # <<>>
            /\ queuedTasks[1].id = drains[d].task.id

----------------------------------------------------------------------------
(* Claims about the operations of the store taken one by one *)

\* processQueue() called on the store directly, in whatever state the monitor
\* is in (the listener of the App calls it in online states only)
processQueueCall ==
    /\ Quiescent
    /\ processQueue(currentState)
    /\ UNCHANGED <<currentState, now, ticks, unitVars, callers, blogs, nextId, succeeded,
                   failures, dropped, removedById>>

NextDrain == Next \/ processQueueCall

SpecDrain == Init /\ [][NextDrain]_vars

\* C24 (the guards of processQueue): a step in which an invocation begins a
\* task ends with the monitor reporting online and that task at the head of
\* the queue; and a step taken while no continuation is due, other than
\* enqueueTask and removeTask, that ends offline or starts from an empty queue
\* (a call of processQueue there, or a notification) begins no invocation,
\* starts no upstream call, and leaves the queue and the history as they were.
C24_DrainGuard ==
    [][/\ \A d \in DrainIds :
             (drains'[d].pc # "idle" /\ drains'[d].task.id # drains[d].task.id)
                => /\ isOnline'
                   /\ queuedTasks' # <<>>
                   /\ queuedTasks'[1] = drains'[d].task
       /\ (/\ Quiescent
           /\ ~isOnline' \/ queuedTasks = <<>>
           /\ nextId' = nextId /\ removedById' = removedById)
                => /\ drains' = drains
                   /\ Len(tasks') = Len(tasks)
                   /\ queuedTasks' = queuedTasks
                   /\ blogs' = blogs]_vars

\* C24, reached: the network went offline during a drain whose current task
\* has now settled with an artifact to come, and another task waits behind it
C24_Witness ==
    /\ ~isOnline
    /\ Len(queuedTasks) >= 2
    /\ \E d \in ActiveDrains :
          /\ drains[d].pc = "generate"
          /\ Settled(drains[d].aw)
          /\ Outcome(drains[d].aw).st = "resolved"
          /\ queuedTasks[1].id = drains[d].task.id

\* enqueueTask(task) with the id as the code builds it, from Date.now() and
\* the characters Math.random() yields (one of two here): the number
\* 1 + 2 * now + random stands for the string `task-${now}-${random}`, one
\* number for each string.  (enqueueTask above takes the ids to be distinct.)
enqueueTaskAt(input, random) ==
    /\ Quiescent
    /\ nextId <= MaxEnqueued
    /\ queuedTasks' = Append(queuedTasks,
           [id |-> 1 + 2 * now + random, topic |-> input.topic,
            withResearch |-> input.withResearch, options |-> input.options,
            attempts |-> 0])
    /\ nextId' = nextId + 1
    /\ UNCHANGED <<currentState, now, ticks, unitVars, facadeVars, callers, blogs, drains,
                   succeeded, failures, dropped, removedById>>

\* the store with its ids as generated for tasks without research, the clock
\* (one millisecond passes), and a backend that succeeds
NextEnqueue ==
    \/ \E input \in {i \in TaskInputs : ~i.withResearch}, random \in {0, 1} :
          enqueueTaskAt(input, random)
    \/ \E id \in Ids(queuedTasks) : removeTask(id)
    \/ now = 0 /\ Tick(1)
    \/ \E ns \in FacadeNetStates : NetInfoEvent(ns)
    \/ \E d \in DrainIds : DrainResume(d)
    \/ \E t \in TaskIds : ProviderRespond(t, "json")

SpecEnqueue == Init /\ [][NextEnqueue]_vars

\* what a call of enqueueTask does to the queue, its id set aside: one task
\* is appended, with attempts 0 and the given fields, behind the tasks that
\* were queued, which stay as they were
Appended ==
    /\ Len(queuedTasks') = Len(queuedTasks) + 1
    /\ SubSeq(queuedTasks', 1, Len(queuedTasks)) = queuedTasks
    /\ \E input \in TaskInputs :
          queuedTasks'[Len(queuedTasks')] =
              [id |-> queuedTasks'[Len(queuedTasks')].id, topic |-> input.topic,
               withResearch |-> input.withResearch, options |-> input.options,
               attempts |-> 0]

\* C25 (enqueueTask): a call of enqueueTask appends exactly one task, with
\* attempts 0, the given topic, withResearch and options, and an id that no
\* queued task has; the tasks already queued keep their position, id and
\* attempts.
C25_EnqueueFresh ==
    [][nextId' # nextId =>
          /\ Appended
          /\ queuedTasks'[Len(queuedTasks')].id \notin Ids(queuedTasks)]_vars

----------------------------------------------------------------------------
(* Claims about the connectivity check and the timeout of the retry engine *)

\* C26 (connectivity check): a step that begins an attempt invokes the
\* operation if the monitor reports online; if it reports offline the
\* operation is not invoked and the attempt fails at once with the network
\* error, whose isNetworkError is true.  The operation is invoked in no other
\* step.
C26_OnlineCheck ==
    [][/\ run'.attempt # run.attempt =>
             /\ run'.attempt = run.attempt + 1
             /\ Len(run'.log) > Len(run.log)
             /\ LET first == run'.log[Len(run.log) + 1] IN
                IF isOnline
                THEN /\ run'.invocations = run.invocations + 1
                     /\ first = Event("invoke", run'.attempt, run'.invocations, "none", 0)
                     /\ run'.pc = "race"
                ELSE /\ run'.invocations = run.invocations
                     /\ run'.running = run.running
                     /\ first = Event("failed", run'.attempt, 0, "offline", 0)
                     /\ run'.lastError = "offline"
                     /\ ErrorFields(run'.lastError).isNetworkError
       /\ run'.invocations # run.invocations =>
             isOnline /\ run'.attempt = run.attempt + 1]_vars

\* C26, reached: the first attempt invoked the operation and failed, and the
\* second attempt, begun offline, failed with the network error without
\* invoking it
C26_Witness ==
    /\ run # <<>>
    /\ run.attempt = 2
    /\ run.invocations = 1
    /\ run.lastError = "offline"
    /\ \E i \in 1..Len(run.log) : run.log[i] = Event("failed", 2, 0, "offline", 0)

\* C27 (timeouts are retried): under the default predicate, when the timer of
\* the race fires in an attempt that is not the last one, the engine goes to
\* its backoff sleep (and from there to another attempt).
C27_TimeoutRetried ==
    [][(/\ run.pc = "race"
        /\ run'.pc \in {"sleep", "thrown"}
        /\ run'.lastError = "timeout"
        /\ run.opts.retryCondition = "default"
        /\ run.attempt < run.opts.maxAttempts)
           => run'.pc = "sleep"]_vars

----------------------------------------------------------------------------
(* Claims about the provider call of the two operations *)

\* C28 (both operations retry their provider call): when the provider call of
\* a research or a generate request throws an error the provider policy
\* retries (a rate limit) in an attempt that is not the last one, the request
\* stays pending and goes to the backoff sleep of the engine.
C28_ProviderCallRetried ==
    [][\A t \in TaskIds :
          (ProviderFail(t, "rate") /\ tasks[t].attempt < OpenAIMaxAttempts)
             => tasks'[t].st = "pending" /\ tasks'[t].phase = "sleep"]_vars

\* C29 (the network classification reaches the caller): when the provider
\* call of a research or a generate request throws a network-classified error
\* and the request fails by it, the error of the request is network-classified;
\* and a caller whose request was rejected has received the error of the
\* request.
C29_NetworkClassPreserved ==
    [][/\ \A t \in TaskIds : \A e \in {x \in Errors : IsNetworkError(x)} :
             (ProviderFail(t, e) /\ tasks'[t].st = "rejected")
                => IsNetworkError(tasks'[t].err)
       /\ \A c \in CallerIds :
             (callers'[c].pc = "done" /\ callers[c].pc = "waiting"
              /\ callers'[c].got.st = "rejected")
                => callers'[c].got.err = tasks[callers[c].aw.t].err]_vars

----------------------------------------------------------------------------
(* The provider preset: one call of retryOpenAICall *)

\* retryOpenAICall(apiCall): the options it passes, merged over those of
\* retryApiCall and DEFAULT_OPTIONS
PresetInit ==
    /\ AppInit
    /\ run = [opts |-> [maxAttempts |-> OpenAIMaxAttempts, retryCondition |-> "openai",
                        baseDelay |-> 2000, backoffFactor |-> 2, maxDelay |-> 20000,
                        jitter |-> TRUE],
              pc |-> "idle", attempt |-> 0, invocations |-> 0, running |-> {},
              log |-> <<>>, lastError |-> "none", data |-> 0, attempts |-> 0,
              thrown |-> "none"]
    /\ requests = <<>> /\ keys = <<>> /\ delay = <<>> /\ parse = <<>>
    /\ lru = <<>> /\ logger = <<>>
    /\ monitor = <<>>

\* the provider call throws a rate limit error, a transport error or an
\* authentication error
NextPreset ==
    \/ CallWithRetry
    \/ \E n \in run.running : OperationResolves(n)
    \/ \E n \in run.running : \E e \in {"rate", "fetch", "fatal"} : OperationRejects(n, e)
    \/ RaceTimeout
    \/ RetrySleepDone
    \/ \E ns \in FacadeNetStates : NetInfoEvent(ns)

SpecPreset == PresetInit /\ [][NextPreset]_vars

\* the failed attempt logged at position i was followed by the backoff sleep
Retried(i) ==
    \E j \in (i + 1)..Len(run.log) :
        run.log[j].ev = "sleep" /\ run.log[j].attempt = run.log[i].attempt

\* C30 (the provider preset): a call of retryOpenAICall makes at most 4
\* attempts, and every failed attempt but the fourth is retried if its error
\* is one the default predicate retries or one whose message matches a rate
\* limit or server error pattern.
C30_PresetSuperset ==
    /\ run.attempt <= 4 /\ run.invocations <= 4
    /\ \A i \in 1..Len(run.log) :
          (/\ run.log[i].ev = "failed"
           /\ run.log[i].attempt < 4
           /\ \/ DefaultRetryCondition(run.log[i].error)
              \/ OpenAIRetryCondition(run.log[i].error))
             => Retried(i)

----------------------------------------------------------------------------
(* Claims about the default predicate and the order of the engine's events *)

\* what the default predicate is said to answer for the error e
SaidRetryable(e) ==
    IF e \in {"offline", "unavailable"}
    THEN ErrorFields(e).retryable
    ELSE \E word \in {<<"n","e","t","w","o","r","k">>, <<"t","i","m","e","o","u","t">>,
                      <<"c","o","n","n","e","c","t","i","o","n">>, <<"f","e","t","c","h">>} :
            Includes(Message(e), word)

\* C31 (the default predicate): under the default predicate a failed attempt
\* that is not the last one is retried exactly if its error, when tagged
\* isNetworkError, is marked retryable (whatever its message), and when not
\* tagged, has a lower-cased message containing "network", "timeout",
\* "connection" or "fetch".
C31_DefaultPredicate ==
    \A i \in 1..Len(run.log) :
        (/\ run.opts.retryCondition = "default"
         /\ run.log[i].ev = "failed"
         /\ run.log[i].attempt < run.opts.maxAttempts)
           => (Retried(i) <=> SaidRetryable(run.log[i].error))

\* C31, reached: a tagged error marked retryable whose message has none of
\* the words was retried, and a tagged error not marked retryable whose
\* message has "connection" was not
C31_Witness ==
    /\ run.opts.retryCondition = "default"
    /\ run.opts.maxAttempts = 3
    /\ run.pc = "thrown"
    /\ \E i \in 1..Len(run.log) :
          run.log[i] = Event("failed", 1, 0, "unavailable", 0) /\ Retried(i)
    /\ \E i \in 1..Len(run.log) :
          run.log[i] = Event("failed", 2, 0, "offline", 0) /\ ~Retried(i)

\* the positions of the log that hold an event ev of attempt k
EventPositions(ev, k) ==
    {i \in 1..Len(run.log) : run.log[i].ev = ev /\ run.log[i].attempt = k}

\* the order of the events between the attempts: every attempt k that was
\* followed by another, or by a sleep that has not ended, has one failed
\* event, then one onRetry event with the same error, then one sleep event,
\* all before any event of attempt k + 1; no other attempt has an onRetry or
\* a sleep event; and while the engine sleeps no later attempt has begun
OrderBetweenAttempts ==
    /\ \A k \in 1..run.attempt :
          IF k < run.attempt \/ run.pc = "sleep"
          THEN \E f \in EventPositions("failed", k) :
                  /\ EventPositions("failed", k) = {f}
                  /\ EventPositions("onRetry", k) = {f + 1}
                  /\ EventPositions("sleep", k) = {f + 2}
                  /\ run.log[f + 1].error = run.log[f].error
                  /\ \A i \in 1..Len(run.log) :
                        run.log[i].attempt = k + 1 => i > f + 2
          ELSE EventPositions("onRetry", k) = {} /\ EventPositions("sleep", k) = {}
    /\ \A i \in 1..Len(run.log) : run.log[i].attempt <= run.attempt

\* C32 as stated (the number of onRetry calls always equals the attempts made
\* minus 1): the events between the attempts are ordered, and at every moment
\* of a call that has begun the onRetry calls number one less than the
\* attempts made.
C32_OnRetryAlwaysOneLess ==
    /\ OrderBetweenAttempts
    /\ run.attempt >= 1 => Len(EventsOf(run, "onRetry")) = run.attempt - 1

\* C32, amended (ordering inside one call): the events between the attempts
\* are ordered; once the call has ended the onRetry calls number one less
\* than the attempts made, and while it runs they number as many as the
\* attempts made during a backoff sleep and one less otherwise.
C32_OnRetryOrder ==
    /\ OrderBetweenAttempts
    /\ run.attempt >= 1 =>
          Len(EventsOf(run, "onRetry")) =
              IF run.pc = "sleep" THEN run.attempt ELSE run.attempt - 1

\* C32, reached: a call ended at its third attempt, after two onRetry calls
\* and two sleeps
C32_Witness ==
    /\ run.pc \in {"returned", "thrown"}
    /\ run.attempt = 3
    /\ Len(EventsOf(run, "onRetry")) = 2
    /\ Len(EventsOf(run, "sleep")) = 2

----------------------------------------------------------------------------
(* The home screen: what handleGenerate does with the topic the user typed *)

\* the default maxLength of validatePromptLength (4000 in the code), scaled to
\* the short strings used here
MaxPromptLength == 3

\* input.replace(/[^\w\s\-.,!?]/g, '').trim()
sanitizeInput(input) ==
    LET word == {"a","b","c","d","e","f","g","h","i","j","k","l","m","n","o","p","q",
                 "r","s","t","u","v","w","x","y","z","A","B","C","D","E","F","G","H",
                 "I","J","K","L","M","N","O","P","Q","R","S","T","U","V","W","X","Y",
                 "Z","0","1","2","3","4","5","6","7","8","9","_"}
        kept == word \cup {" ", "-", ".", ",", "!", "?"}
    IN  Trim(SelectSeq(input, LAMBDA ch : ch \in kept))

\* validatePromptLength(input, maxLength): TRUE if it returns, FALSE if it
\* throws
validatePromptLength(input, maxLength) == ~(Len(input) > maxLength)

\* handleGenerate up to its await, with `topic` in the text field; offline it
\* shows the modal, where the user presses "Queue for later" (queue) or
\* "Cancel".  Neither function of sanitize.ts is called on the way.
handleGenerate(c, topic, queue) ==
    IF Trim(topic) = <<>>
    THEN UNCHANGED vars
    ELSE IF ~isOnline
    THEN IF queue
         THEN enqueueTask([topic |-> Trim(topic), withResearch |-> FALSE,
                           options |-> HomeOptions])
         ELSE UNCHANGED vars
    ELSE CallBlog(c, [topic |-> Trim(topic), contentType |-> "guide",
                      tone |-> "conversational", includeFAQ |-> TRUE,
                      includeSchema |-> TRUE, wordCount |-> DefaultWordCount])

\* the presses of the button, one of them at most online; the text field
\* holds blanks, a topic, a topic with characters sanitizeInput strips, or a
\* topic of MaxPromptLength + 1 characters
NextHome ==
    \/ \E c \in {1}, queue \in BOOLEAN :
          \E topic \in {<<" ">>, <<"a", " ", "b">>, <<"<", "a", ">">>,
                        [i \in 1..(MaxPromptLength + 1) |-> "a"]} :
              handleGenerate(c, topic, queue)
    \/ \E c \in CallerIds : CallerResume(c)
    \/ \E ns \in FacadeNetStates : NetInfoEvent(ns)
    \/ \E d \in DrainIds : DrainResume(d)
    \/ \E t \in TaskIds : ProviderRespond(t, "json")

SpecHome == Init /\ [][NextHome]_vars

\* the topics that were sent to the generation backend or put on the queue
TopicsSent ==
    {tasks[t].key.t : t \in {u \in TaskIds : tasks[u].kind = "blog"}}
        \cup {queuedTasks[i].topic : i \in 1..Len(queuedTasks)}

\* C33 (validation precedes every remote call and every enqueue): every
\* topic for which an upstream call was started, and every topic on the
\* offline queue, passes validatePromptLength with the default maxLength and
\* is left as it is by sanitizeInput.
C33_ValidatedBeforeUse ==
    \A topic \in TopicsSent :
        /\ validatePromptLength(topic, MaxPromptLength)
        /\ sanitizeInput(topic) = topic

----------------------------------------------------------------------------
(* Claims about the entries of the request cache *)

\* the step stores the result of task t, which resolves in it, under its key
StoredBy(t, entry) ==
    /\ tasks[t].st = "pending"
    /\ tasks'[t].st = "resolved"
    /\ entry.data.src = t
    /\ entry.expiresAt = now + 24 * 60 * 60 * 1000
    /\ entry.storedAt = now

\* C34 (the TTL is absolute): in every step each cache keeps its keys, and
\* each entry stays exactly as it was (its expiresAt too, also in a step that
\* serves it to a request) unless the step is the successful completion of an
\* upstream task of that operation and key, which puts in its place a whole
\* new entry with that task's result and expiresAt = now + 24h; a key enters
\* a cache in no other way.
C34_AbsoluteTTL ==
    [][\A kind \in {"research", "blog"} :
          LET old == CacheOf(kind)
              new == CacheOf(kind)'
          IN  /\ DOMAIN old \subseteq DOMAIN new
              /\ \A key \in DOMAIN new :
                    \/ key \in DOMAIN old /\ new[key] = old[key]
                    \/ \E t \in TaskIds :
                          /\ tasks[t].kind = kind
                          /\ tasks[t].key = key
                          /\ StoredBy(t, new[key])]_vars

\* C34, reached: a request was served from an entry, which expired at its
\* time, and a later upstream task has put a new entry in its place
C34_Witness ==
    \E c \in CallerIds :
        /\ callers[c].pc = "done"
        /\ callers[c].kind = "blog"
        /\ callers[c].aw.t = 0
        /\ callers[c].entryAt >= 0
        /\ callers[c].at > callers[c].entryAt
        /\ callers[c].key \in DOMAIN blogCacheMem
        /\ blogCacheMem[callers[c].key].storedAt = callers[c].entryAt + BLOG_TTL_MS

----------------------------------------------------------------------------
(***************************************************************************)
(* The listeners of the network monitor (NetworkService.listeners).  A     *)
(* registration is one call of addListener; its number is its position in  *)
(* monitor.registrations.  A callback is a function object: "a" and "b"    *)
(* only look at the state, "once" calls the unsubscribe function it got    *)
(* from addListener from inside its notification.  The same function       *)
(* object may be passed to addListener more than once.                     *)
(***************************************************************************)
MaxRegistrations == 3
MaxUnsubscribeCalls == 3
MaxNotifications == 2

MonitorInit ==
    /\ AppInit
    /\ monitor = [listeners |-> <<>>, registrations |-> <<>>,
                  unsubCalls |-> [r \in 1..MaxRegistrations |-> 0],
                  removedBy |-> [r \in 1..MaxRegistrations |-> 0],
                  notifications |-> 0, state |-> <<>>, registered |-> {},
                  invoked |-> <<>>]
    /\ requests = <<>> /\ keys = <<>> /\ run = <<>> /\ delay = <<>>
    /\ parse = <<>> /\ lru = <<>> /\ logger = <<>>

\* this.listeners.push(callback); the returned closure is unsubscribe(reg)
addListener(callback) ==
    /\ Len(monitor.registrations) < MaxRegistrations
    /\ monitor' = [monitor EXCEPT
           !.listeners = Append(@, [cb |-> callback,
                                    reg |-> Len(monitor.registrations) + 1]),
           !.registrations = Append(@, callback)]
    /\ UNCHANGED <<appVars, requests, keys, run, delay, parse, lru, logger>>

\* the body of the closure returned by registration reg: indexOf(callback)
\* finds the first element that is that function object, splice removes it
Unsubscribed(m, reg) ==
    LET callback == m.registrations[reg]
        found == {i \in 1..Len(m.listeners) : m.listeners[i].cb = callback}
        counted == [m EXCEPT !.unsubCalls[reg] = @ + 1]
    IN  IF found = {} THEN counted
        ELSE LET index == CHOOSE i \in found : \A j \in found : i <= j
             IN  [counted EXCEPT
                     !.listeners = [i \in 1..(Len(m.listeners) - 1) |->
                                       IF i < index THEN m.listeners[i]
                                       ELSE m.listeners[i + 1]],
                     !.removedBy[m.listeners[index].reg] = reg]

\* a holder of the unsubscribe function of registration reg calls it
unsubscribe(reg) ==
    /\ monitor.unsubCalls[reg] < MaxUnsubscribeCalls
    /\ monitor' = Unsubscribed(monitor, reg)
    /\ UNCHANGED <<appVars, requests, keys, run, delay, parse, lru, logger>>

\* this.listeners.forEach(listener => listener(state)): forEach reads the
\* length once, then visits the indices below it that the array still has
notifyListeners(state) ==
    LET RECURSIVE forEach(_, _, _)
        forEach(m, k, len) ==
            IF k > len THEN m
            ELSE IF k > Len(m.listeners) THEN forEach(m, k + 1, len)
            ELSE LET listener == m.listeners[k]
                     called == [m EXCEPT !.invoked =
                                   Append(@, [reg |-> listener.reg, state |-> state])]
                 IN  forEach(IF listener.cb = "once"
                             THEN Unsubscribed(called, listener.reg)
                             ELSE called, k + 1, len)
        start == [monitor EXCEPT
                     !.notifications = @ + 1,
                     !.state = state,
                     !.registered = {monitor.listeners[i].reg :
                                        i \in 1..Len(monitor.listeners)},
                     !.invoked = <<>>]
    IN  /\ monitor.notifications < MaxNotifications
        /\ monitor' = forEach(start, 1, Len(monitor.listeners))
        /\ UNCHANGED <<appVars, requests, keys, run, delay, parse, lru, logger>>

NextMonitor ==
    \/ \E callback \in {"a", "b", "once"} : addListener(callback)
    \/ \E reg \in 1..Len(monitor.registrations) : unsubscribe(reg)
    \/ \E state \in FacadeNetStates : notifyListeners(state)

SpecMonitor == MonitorInit /\ [][NextMonitor]_vars

Registrations == 1..Len(monitor.registrations)
Listening == {monitor.listeners[i].reg : i \in 1..Len(monitor.listeners)}

\* C35: once the unsubscribe function of a registration has been called,
\* that registration is no longer in the list (so it receives no later
\* notification), and every registration that was removed was removed by
\* its own unsubscribe function: a second call of the same function and a
\* call of another registration's function remove nothing else.
C35_UnsubscribeOwnRegistration ==
    \A r \in Registrations :
        /\ monitor.unsubCalls[r] >= 1 => r \notin Listening
        /\ monitor.removedBy[r] \in {0, r}

\* C36: every listener that is registered when a notification starts is
\* invoked exactly once in it, with the new state.
C36_EveryListenerInvokedOnce ==
    \A r \in monitor.registered :
        /\ Cardinality({i \in 1..Len(monitor.invoked) :
                            monitor.invoked[i].reg = r}) = 1
        /\ \A i \in 1..Len(monitor.invoked) :
               monitor.invoked[i].state = monitor.state

----------------------------------------------------------------------------
(* The request cache when every answer of the provider is unparsable *)

\* the two operations under interactive callers and the clock; every provider
\* call returns text that is not JSON, so every result is a fallback object
SpecFallback ==
    Init /\ [][\/ \E c \in CallerIds, topic \in Topics : CallResearch(c, topic)
               \/ \E c \in CallerIds, opts \in BlogInputs : CallBlog(c, opts)
               \/ \E c \in CallerIds : CallerResume(c)
               \/ \E ns \in FacadeNetStates : NetInfoEvent(ns)
               \/ \E ms \in TickSteps : Tick(ms)
               \/ \E t \in TaskIds : ProviderRespond(t, "text")]_vars

\* C37 (a fallback is cached like a parsed result): the step in which an
\* upstream task resolves with a fallback object puts that object in the
\* cache of its operation under its key with expiresAt = now + 24h, and a
\* request that finds such an entry less than 24h after it was stored starts
\* no upstream task and is given that same object.
C37_FallbackCached ==
    [][/\ \A t \in TaskIds :
             (tasks[t].st = "pending" /\ tasks'[t].st = "resolved" /\ tasks'[t].fb) =>
                 LET cache == CacheOf(tasks[t].kind)'
                     key == tasks[t].key
                 IN  /\ key \in DOMAIN cache
                     /\ cache[key].data = [src |-> t, fb |-> TRUE]
                     /\ cache[key].expiresAt = now + 24 * 60 * 60 * 1000
                     /\ cache[key].storedAt = now
       /\ \A c \in CallerIds :
             (callers[c].pc = "idle" /\ callers'[c].pc = "waiting") =>
                 LET cache == CacheOf(callers'[c].kind)
                     key == callers'[c].key
                 IN  IF key \in DOMAIN cache
                     THEN (cache[key].data.fb
                           /\ now < cache[key].storedAt + 24 * 60 * 60 * 1000) =>
                              /\ tasks' = tasks
                              /\ callers'[c].aw = [t |-> 0, src |-> cache[key].data.src,
                                                   fb |-> TRUE]
                     ELSE TRUE]_vars

\* C37, reached: a request made later than the fallback was stored, and in
\* the last millisecond of its 24h, was answered with the stored fallback
C37_Witness ==
    \E c \in CallerIds :
        /\ callers[c].pc = "done"
        /\ callers[c].aw.t = 0
        /\ callers[c].got.st = "resolved"
        /\ callers[c].got.fb
        /\ tasks[callers[c].got.src].fb
        /\ callers[c].at = callers[c].entryAt + TtlOf(callers[c].kind) - 1

----------------------------------------------------------------------------
(* The engine when the monitor is offline at the first attempt *)

\* C38: under the default predicate, a call whose first attempt found the
\* monitor offline has been rejected in that attempt with the network error
\* of the connectivity check, whose retryable flag is false; the operation
\* was not invoked, onRetry was not called and no backoff delay was slept.
C38_OfflineFailsFast ==
    (/\ run.opts.retryCondition = "default"
     /\ run.log # <<>>
     /\ run.log[1] = Event("failed", 1, 0, "offline", 0)) =>
        /\ run.pc = "thrown"
        /\ run.thrown = "offline"
        /\ ErrorFields(run.thrown).isNetworkError
        /\ ~ErrorFields(run.thrown).retryable
        /\ run.attempt = 1
        /\ run.invocations = 0
        /\ run.running = {}
        /\ EventsOf(run, "onRetry") = <<>>
        /\ EventsOf(run, "sleep") = <<>>
        /\ EventsOf(run, "invoke") = <<>>
        /\ Len(EventsOf(run, "failed")) = 1

\* C38, reached: such a call, which had three attempts to spend
C38_Witness ==
    /\ run.opts.retryCondition = "default"
    /\ run.opts.maxAttempts = 3
    /\ run.pc = "thrown"
    /\ run.log = <<Event("failed", 1, 0, "offline", 0)>>

----------------------------------------------------------------------------
(* The capacity of the LRU cache *)

\* the last call was a set of a key the cache held
ResetOfPresentKey ==
    /\ lru.calls # <<>>
    /\ LastCall.op = "set"
    /\ LastCall.key \in KeysOf(LastCall.map)

\* C39 (capacity): the cache never holds more than maxSize entries, each
\* under its own key; a set of a key that is present leaves the number of
\* entries and the set of keys as they were, and every other entry keeps its
\* value.
C39_Capacity ==
    /\ Len(lru.map) <= lru.maxSize
    /\ Cardinality(KeysOf(lru.map)) = Len(lru.map)
    /\ ResetOfPresentKey =>
          /\ Len(lru.map) = Len(LastCall.map)
          /\ KeysOf(lru.map) = KeysOf(LastCall.map)
          /\ \A k \in KeysOf(LastCall.map) \ {LastCall.key} :
                MapGet(lru.map, k) = MapGet(LastCall.map, k)
          /\ MapGet(lru.map, LastCall.key) = LastCall.value

\* C39, reached: a key other than the oldest one was set again in a full
\* cache of two entries
C39_Witness ==
    /\ ResetOfPresentKey
    /\ lru.maxSize = 2
    /\ Len(LastCall.map) = 2
    /\ LastCall.key # FirstKey(LastCall.map)
    /\ Len(lru.map) = 2

============================================================================
